---- MODULE Spec2Model ----
(***************************************************************************)
(* Ingestion and identity pipeline of the balloon visualizer:              *)
(*   - the route GET /api/balloons (bucket fallback, last-known-good       *)
(*     cache),                                                             *)
(*   - the client library (extractLatestPositions, normalizePoint),        *)
(*   - the MapboxBalloons component (refreshBalloons, assignStableIds,      *)
(*     the context effect of the panel),                                   *)
(*   - the route GET /api/context (keyed ten-minute cache).                *)
(*                                                                         *)
(* Representation.  Coordinates are integers in units of 1/Scale degree.   *)
(* A JSON value is a record [t, n, s, a, o]: t is the kind, n the number   *)
(* (kind "num"), s the string (kind "str"), a the elements (kind "arr"),   *)
(* o the members (kind "obj", a sequence of [k, v]).  Kind "inf" is a      *)
(* number literal that JSON.parse turns into Infinity (such as 1e999).     *)
(* null/undefined of a string-valued field is the string Null; an optional *)
(* number is a sequence of length 0 or 1.                                  *)
(***************************************************************************)
EXTENDS Integers, Sequences, FiniteSets, TLC

\* ------------------------------------------------------------------ bounds
MaxPoints == 2      \* longest point list one snapshot delivers
MaxNextId == 3      \* a poll is applied only if it leaves the sequence counter <= MaxNextId
MaxClock == 2       \* the server clock advances at most MaxClock ticks
MinRequested == 21  \* youngest bucket a request of the fetcher model asks for
MaxLen == 3         \* longest list the normalizer model is given
MaxCtxClock == 2    \* the clock of the context route advances at most MaxCtxClock ticks
MaxCalls == 2       \* most invocations of the context effect awaiting their fetch

\* --------------------------------------------------------------- constants
Scale == 10         \* coordinate units per degree (representation)
BIN_DEG == 1
MATCH_KM == 150
OLDEST == 23
TickMs == 500       \* milliseconds per clock tick (representation)
Milli == 1000       \* coordinate units per degree in the context route (representation)

Null == "null"

Max(a, b) == IF a >= b THEN a ELSE b
Min(a, b) == IF a <= b THEN a ELSE b
Abs(x) == IF x < 0 THEN -x ELSE x
Range(f) == {f[i] : i \in DOMAIN f}
SeqsUpTo(S, n) == UNION {[1..k -> S] : k \in 0..n}

\* ------------------------------------------------------------- JSON values
J(t, n, s, a, o) == [t |-> t, n |-> n, s |-> s, a |-> a, o |-> o]
JNull == J("null", 0, "", <<>>, <<>>)
JNum(n) == J("num", n, "", <<>>, <<>>)
JInf == J("inf", 0, "", <<>>, <<>>)
JStr(s) == J("str", 0, s, <<>>, <<>>)
JBool(b) == J("bool", IF b THEN 1 ELSE 0, "", <<>>, <<>>)
JArr(a) == J("arr", 0, "", a, <<>>)
JObj(o) == J("obj", 0, "", <<>>, o)
KV(k, v) == [k |-> k, v |-> v]

HasKey(x, k) == x.t = "obj" /\ \E i \in 1..Len(x.o) : x.o[i].k = k
\* value of member k; JSON.parse keeps the last of duplicate keys
Get(x, k) == x.o[CHOOSE i \in 1..Len(x.o) :
                   /\ x.o[i].k = k
                   /\ \A j \in (i+1)..Len(x.o) : x.o[j].k # k].v

\* JavaScript truthiness of a parsed JSON value
Truthy(x) ==
    CASE x.t = "null" -> FALSE
      [] x.t = "bool" -> x.n = 1
      [] x.t = "num" -> x.n # 0
      [] x.t = "str" -> x.s # ""
      [] OTHER -> TRUE

\* ---------------------------------------------------- positions, distances
\* The positions the model draws points from, as <<lat, lon>> in 1/Scale deg,
\* with their bins <<y, x>>:
\*   1: (0, 178.9)  <<90, 358>>      2: (1.33.., 179.1)  <<91, 359>>
\*   3: (0, 180.0)  <<90, 360>>      4: (0, -179.9)      <<90, 0>>
\* The latitude of 2 is the double 1.3340767475467112, for which haversineKm
\* to and from 1 evaluates to exactly 150 (with correctly rounded sin, cos,
\* asin and sqrt); <<13, 1791>> is its name in the model and gives its bin.
\* 1-2 are in adjacent bins and exactly MATCH_KM apart, 2-3 in adjacent bins
\* and 178.9 km apart, 1-3 two bins apart and 122.3 km apart, 3-4 on the two
\* sides of the antimeridian and 11.1 km apart.
Pos == << <<0, 1789>>, <<13, 1791>>, <<0, 1800>>, <<0, -1799>> >>

\* haversineKm evaluated on Pos x Pos in IEEE doubles, in metres (rounded).
\* 150000 is exact; no other value lies within a metre of MATCH_KM and
\* rounding merges no two different distances.
DistM == <<
    <<0, 150000, 122314, 133434>>,
    <<150000, 0, 178938, 185385>>,
    <<122314, 178938, 0, 11119>>,
    <<133434, 185385, 11119, 0>> >>

PosIndex(lat, lon) == CHOOSE i \in 1..Len(Pos) : Pos[i] = <<lat, lon>>

\* great-circle distance in metres
haversineM(aLat, aLon, bLat, bLon) ==
    DistM[PosIndex(aLat, aLon)][PosIndex(bLat, bLon)]

\* -------------------------------------------------------------- spatial bins
binKey(lat, lon) ==
    LET x == (lon + 180 * Scale) \div (BIN_DEG * Scale)
        y == (lat + 90 * Scale) \div (BIN_DEG * Scale)
    IN  <<y, x>>

\* the nine keys in the order the loops push them: dy outer, dx inner
neighborBinKeys(lat, lon) ==
    LET x0 == (lon + 180 * Scale) \div (BIN_DEG * Scale)
        y0 == (lat + 90 * Scale) \div (BIN_DEG * Scale)
    IN  [i \in 1..9 |-> <<y0 + ((i - 1) \div 3) - 1, x0 + ((i - 1) % 3) - 1>>]

\* ------------------------------------------------------- shape normalizer
isNumber(x) == x.t = "num"

isRecord(x) == x.t \in {"obj", "arr"}

\* "data" in raw: an array has no own property named data
unwrapPayload(raw) ==
    IF isRecord(raw) /\ HasKey(raw, "data") THEN Get(raw, "data") ELSE raw

\* variant: no range check after the interpretation
normalizePointNoRange(p) ==
    IF p.t # "arr" \/ Len(p.a) < 2 THEN <<>>
    ELSE LET a == p.a[1]
             b == p.a[2]
         IN  IF ~isNumber(a) \/ ~isNumber(b) THEN <<>>
             ELSE LET looksLikeLonLat == Abs(a.n) > 90 * Scale /\ Abs(b.n) <= 90 * Scale
                      lat == IF looksLikeLonLat THEN b.n ELSE a.n
                      lon == IF looksLikeLonLat THEN a.n ELSE b.n
                  IN  << [lat |-> lat, lon |-> lon,
                          meta |-> IF Len(p.a) >= 3 /\ isNumber(p.a[3])
                                   THEN <<p.a[3].n>> ELSE <<>>] >>

\* variant: Math.abs(a) >= 90 in the lon/lat detection
normalizePointSwapAt90(p) ==
    IF p.t # "arr" \/ Len(p.a) < 2 THEN <<>>
    ELSE LET a == p.a[1]
             b == p.a[2]
         IN  IF ~isNumber(a) \/ ~isNumber(b) THEN <<>>
             ELSE LET looksLikeLonLat == Abs(a.n) >= 90 * Scale /\ Abs(b.n) <= 90 * Scale
                      lat == IF looksLikeLonLat THEN b.n ELSE a.n
                      lon == IF looksLikeLonLat THEN a.n ELSE b.n
                  IN  IF Abs(lat) > 90 * Scale \/ Abs(lon) > 180 * Scale THEN <<>>
                      ELSE << [lat |-> lat, lon |-> lon,
                               meta |-> IF Len(p.a) >= 3 /\ isNumber(p.a[3])
                                        THEN <<p.a[3].n>> ELSE <<>>] >>

\* BalloonPoint | null as a sequence of length 0 or 1
normalizePoint(p) ==
    IF p.t # "arr" \/ Len(p.a) < 2 THEN <<>>
    ELSE LET a == p.a[1]
             b == p.a[2]
         IN  IF ~isNumber(a) \/ ~isNumber(b) THEN <<>>
             ELSE LET looksLikeLonLat == Abs(a.n) > 90 * Scale /\ Abs(b.n) <= 90 * Scale
                      lat == IF looksLikeLonLat THEN b.n ELSE a.n
                      lon == IF looksLikeLonLat THEN a.n ELSE b.n
                  IN  IF Abs(lat) > 90 * Scale \/ Abs(lon) > 180 * Scale THEN <<>>
                      ELSE << [lat |-> lat, lon |-> lon,
                               meta |-> IF Len(p.a) >= 3 /\ isNumber(p.a[3])
                                        THEN <<p.a[3].n>> ELSE <<>>] >>

isFlatPointsShape(data) ==
    IF data.t # "arr" THEN FALSE
    ELSE IF Len(data.a) = 0 THEN TRUE
    ELSE LET first == data.a[1]
         IN  /\ first.t = "arr"
             /\ Len(first.a) >= 2
             /\ isNumber(first.a[1])
             /\ isNumber(first.a[2])

isTracksShape(data) ==
    IF data.t # "arr" THEN FALSE
    ELSE IF Len(data.a) = 0 THEN TRUE
    ELSE LET firstTrack == data.a[1]
         IN  IF firstTrack.t # "arr" \/ Len(firstTrack.a) = 0 THEN FALSE
             ELSE LET firstPoint == firstTrack.a[1]
                  IN  /\ firstPoint.t = "arr"
                      /\ Len(firstPoint.a) >= 2
                      /\ isNumber(firstPoint.a[1])
                      /\ isNumber(firstPoint.a[2])

\* variant: the kept points come out in reverse order
RECURSIVE NormalizeAllReversed(_)
NormalizeAllReversed(xs) ==
    IF xs = <<>> THEN <<>>
    ELSE NormalizeAllReversed(Tail(xs)) \o normalizePoint(Head(xs))

\* xs.map(normalizePoint).filter(Boolean)
RECURSIVE NormalizeAll(_)
NormalizeAll(xs) ==
    IF xs = <<>> THEN <<>>
    ELSE normalizePoint(Head(xs)) \o NormalizeAll(Tail(xs))

\* variant: the first point of the track is taken
LastOfTrackTakingFirst(track) ==
    IF track.t = "arr" /\ Len(track.a) > 0 THEN track.a[1] ELSE JNull

\* track => Array.isArray(track) && track.length ? track[track.length - 1] : null
LastOfTrack(track) ==
    IF track.t = "arr" /\ Len(track.a) > 0 THEN track.a[Len(track.a)] ELSE JNull

\* number-to-string of a number of the payload: n stands for n / Scale
NumberText(n) ==
    (IF n < 0 THEN "-" ELSE "")
    \o ToString(Abs(n) \div Scale)
    \o (IF Abs(n) % Scale = 0 THEN "" ELSE "." \o ToString(Abs(n) % Scale))

\* texts.join(",")
RECURSIVE JoinAll(_)
JoinAll(texts) ==
    IF texts = <<>> THEN ""
    ELSE IF Len(texts) = 1 THEN texts[1]
    ELSE texts[1] \o "," \o JoinAll(Tail(texts))

\* JSON.stringify of a parsed JSON value (a number that is not finite is
\* written null; the keys and strings of the model need no escaping)
RECURSIVE Stringify(_)
Stringify(x) ==
    CASE x.t = "null" -> "null"
      [] x.t = "inf" -> "null"
      [] x.t = "num" -> NumberText(x.n)
      [] x.t = "bool" -> IF x.n = 1 THEN "true" ELSE "false"
      [] x.t = "str" -> "\"" \o x.s \o "\""
      [] x.t = "arr" -> "[" \o JoinAll([i \in 1..Len(x.a) |-> Stringify(x.a[i])]) \o "]"
      [] x.t = "obj" ->
            "{" \o JoinAll([i \in 1..Len(x.o) |->
                              "\"" \o x.o[i].k \o "\":" \o Stringify(x.o[i].v)]) \o "}"

PreviewLen == 200

\* variant: the whole text is the preview
PreviewWhole(text) == text

\* text.slice(0, 200)
Preview(text) == SubSeq(text, 1, Min(PreviewLen, Len(text)))

ShapeError == "Unexpected balloon data shape. Preview: "

\* the returned list, or the thrown error: [ok, points, msg]
extractLatestPositions(raw) ==
    LET data == unwrapPayload(raw)
    IN  IF data.t = "arr" /\ Len(data.a) = 0
            THEN [ok |-> TRUE, points |-> <<>>, msg |-> Null]
        ELSE IF isFlatPointsShape(data)
            THEN [ok |-> TRUE, points |-> NormalizeAll(data.a), msg |-> Null]
        ELSE IF isTracksShape(data)
            THEN [ok |-> TRUE,
                  points |-> NormalizeAll([i \in 1..Len(data.a) |-> LastOfTrack(data.a[i])]),
                  msg |-> Null]
        ELSE [ok |-> FALSE, points |-> <<>>,
              msg |-> ShapeError \o Preview(Stringify(data))]

\* -------------------------------------------------------- identity tracker
\* An identifier "b<k>" is the integer k.  The IdentityTable is the sequence
\* of its entries [id, lat, lon] in insertion order (the iteration order of
\* a Map).

\* bins.get(k): the previous entries of bin k, in insertion order
BinOf(prevById, k) == SelectSeq(prevById, LAMBDA e : binKey(e.lat, e.lon) = k)

\* the candidates in the order the two nested loops visit them
RECURSIVE CandidatesFrom(_, _, _)
CandidatesFrom(prevById, keys, i) ==
    IF i > Len(keys) THEN <<>>
    ELSE BinOf(prevById, keys[i]) \o CandidatesFrom(prevById, keys, i + 1)

Candidates(prevById, p) == CandidatesFrom(prevById, neighborBinKeys(p.lat, p.lon), 1)

\* variant: km <= bestKm, the last of equally near candidates wins
RECURSIVE ScanLastWins(_, _, _, _, _)
ScanLastWins(cands, i, usedPrevIds, p, best) ==
    IF i > Len(cands) THEN best
    ELSE IF cands[i].id \in usedPrevIds THEN ScanLastWins(cands, i + 1, usedPrevIds, p, best)
    ELSE IF best = <<>> \/ haversineM(p.lat, p.lon, cands[i].lat, cands[i].lon) <= best[1].m
         THEN ScanLastWins(cands, i + 1, usedPrevIds, p,
                           <<[id |-> cands[i].id,
                              m |-> haversineM(p.lat, p.lon, cands[i].lat, cands[i].lon)]>>)
         ELSE ScanLastWins(cands, i + 1, usedPrevIds, p, best)

\* variant: the first unclaimed candidate is taken, whatever its distance to
\* the later ones
RECURSIVE ScanFirstFound(_, _, _, _, _)
ScanFirstFound(cands, i, usedPrevIds, p, best) ==
    IF i > Len(cands) THEN best
    ELSE IF cands[i].id \in usedPrevIds THEN ScanFirstFound(cands, i + 1, usedPrevIds, p, best)
    ELSE <<[id |-> cands[i].id,
            m |-> haversineM(p.lat, p.lon, cands[i].lat, cands[i].lon)]>>

\* the scan of one current point over its candidates cands[i..]: best is
\* <<>> (bestId = null, bestKm = Infinity) or <<[id, m]>>
RECURSIVE Scan(_, _, _, _, _)
Scan(cands, i, usedPrevIds, p, best) ==
    IF i > Len(cands) THEN best
    ELSE IF cands[i].id \in usedPrevIds THEN Scan(cands, i + 1, usedPrevIds, p, best)
    ELSE IF best = <<>> \/ haversineM(p.lat, p.lon, cands[i].lat, cands[i].lon) < best[1].m
         THEN Scan(cands, i + 1, usedPrevIds, p,
                   <<[id |-> cands[i].id,
                      m |-> haversineM(p.lat, p.lon, cands[i].lat, cands[i].lon)]>>)
         ELSE Scan(cands, i + 1, usedPrevIds, p, best)

\* (a one-element set binds a value that is used several times)
BestOf(prevById, usedPrevIds, p) ==
    CHOOSE best \in {Scan(cands, 1, usedPrevIds, p, <<>>) : cands \in {Candidates(prevById, p)}} : TRUE

\* variant: no distance threshold
MatchesAnyDistance(best) == best # <<>>

\* variant: bestKm < MATCH_KM
MatchesStrict(best) == best # <<>> /\ best[1].m < MATCH_KM * 1000

\* if (bestId && bestKm <= MATCH_KM)
Matches(best) == best # <<>> /\ best[1].m <= MATCH_KM * 1000

\* one iteration of the loop over the current points, then the rest: [out, nextId]
RECURSIVE AssignLoop(_, _, _, _, _, _)
\* variant: a matched candidate is not marked as used
AssignFromNoClaim(points, idx, prevById, usedPrevIds, nextId, out, best) ==
    LET p == points[idx]
    IN  IF Matches(best)
        THEN AssignLoop(points, idx + 1, prevById, usedPrevIds, nextId,
                        Append(out, [id |-> best[1].id, lat |-> p.lat, lon |-> p.lon,
                                     meta |-> p.meta, idx |-> idx - 1]))
        ELSE AssignLoop(points, idx + 1, prevById, usedPrevIds, nextId + 1,
                        Append(out, [id |-> nextId, lat |-> p.lat, lon |-> p.lon,
                                     meta |-> p.meta, idx |-> idx - 1]))

\* variant: a mint takes the smallest number that is free at the moment
AssignFromReuseFree(points, idx, prevById, usedPrevIds, nextId, out, best) ==
    LET p == points[idx]
        taken == {prevById[k].id : k \in 1..Len(prevById)} \cup {out[k].id : k \in 1..Len(out)}
        free == CHOOSE n \in 1..nextId : n \notin taken /\ \A m \in 1..(n - 1) : m \in taken
    IN  IF Matches(best)
        THEN AssignLoop(points, idx + 1, prevById, usedPrevIds \cup {best[1].id}, nextId,
                        Append(out, [id |-> best[1].id, lat |-> p.lat, lon |-> p.lon,
                                     meta |-> p.meta, idx |-> idx - 1]))
        ELSE AssignLoop(points, idx + 1, prevById, usedPrevIds, nextId + 1,
                        Append(out, [id |-> free, lat |-> p.lat, lon |-> p.lon,
                                     meta |-> p.meta, idx |-> idx - 1]))

\* variant: out.unshift instead of out.push
AssignFromPrepending(points, idx, prevById, usedPrevIds, nextId, out, best) ==
    LET p == points[idx]
    IN  IF Matches(best)
        THEN AssignLoop(points, idx + 1, prevById, usedPrevIds \cup {best[1].id}, nextId,
                        <<[id |-> best[1].id, lat |-> p.lat, lon |-> p.lon,
                           meta |-> p.meta, idx |-> idx - 1]>> \o out)
        ELSE AssignLoop(points, idx + 1, prevById, usedPrevIds, nextId + 1,
                        <<[id |-> nextId, lat |-> p.lat, lon |-> p.lon,
                           meta |-> p.meta, idx |-> idx - 1]>> \o out)

\* variant: nextIdRef.current++ runs for every point, reused or not
AssignFromCountingAll(points, idx, prevById, usedPrevIds, nextId, out, best) ==
    LET p == points[idx]
    IN  IF Matches(best)
        THEN AssignLoop(points, idx + 1, prevById, usedPrevIds \cup {best[1].id}, nextId + 1,
                        Append(out, [id |-> best[1].id, lat |-> p.lat, lon |-> p.lon,
                                     meta |-> p.meta, idx |-> idx - 1]))
        ELSE AssignLoop(points, idx + 1, prevById, usedPrevIds, nextId + 1,
                        Append(out, [id |-> nextId, lat |-> p.lat, lon |-> p.lon,
                                     meta |-> p.meta, idx |-> idx - 1]))

AssignFrom(points, idx, prevById, usedPrevIds, nextId, out, best) ==
    LET p == points[idx]
    IN  IF Matches(best)
        THEN AssignLoop(points, idx + 1, prevById, usedPrevIds \cup {best[1].id}, nextId,
                        Append(out, [id |-> best[1].id, lat |-> p.lat, lon |-> p.lon,
                                     meta |-> p.meta, idx |-> idx - 1]))
        ELSE AssignLoop(points, idx + 1, prevById, usedPrevIds, nextId + 1,
                        Append(out, [id |-> nextId, lat |-> p.lat, lon |-> p.lon,
                                     meta |-> p.meta, idx |-> idx - 1]))

AssignLoop(points, idx, prevById, usedPrevIds, nextId, out) ==
    IF idx > Len(points) THEN [out |-> out, nextId |-> nextId]
    ELSE CHOOSE r \in {AssignFrom(points, idx, prevById, usedPrevIds, nextId, out, best) :
                       best \in {BestOf(prevById, usedPrevIds, points[idx])}} : TRUE

\* Map.set: a present key keeps its place and takes the new value
MapSet(m, id, lat, lon) ==
    IF \E i \in 1..Len(m) : m[i].id = id
    THEN [i \in 1..Len(m) |-> IF m[i].id = id THEN [id |-> id, lat |-> lat, lon |-> lon] ELSE m[i]]
    ELSE Append(m, [id |-> id, lat |-> lat, lon |-> lon])

RECURSIVE NewPrev(_, _)
NewPrev(out, m) ==
    IF out = <<>> THEN m
    ELSE NewPrev(Tail(out), MapSet(m, Head(out).id, Head(out).lat, Head(out).lon))

\* variant: the new entries are added to the previous table
assignStableIdsAccumulating(points, prevById, nextId) ==
    CHOOSE st \in {[out |-> r.out, prevById |-> NewPrev(r.out, prevById), nextId |-> r.nextId] :
                    r \in {AssignLoop(points, 1, prevById, {}, nextId, <<>>)}} : TRUE

\* [out, prevById, nextId]: the returned list and the two refs after the call
assignStableIds(points, prevById, nextId) ==
    CHOOSE st \in {[out |-> r.out, prevById |-> NewPrev(r.out, <<>>), nextId |-> r.nextId] :
                    r \in {AssignLoop(points, 1, prevById, {}, nextId, <<>>)}} : TRUE

\* ------------------------------------------------------ client fetch helper
ApiFailed(status) == IF status = 502 THEN "API fetch failed: 502" ELSE "API fetch failed"

\* fetchLatestBalloonsWithMeta once res.ok holds and res.json() gave raw:
\* the BalloonsPayload, or the error thrown by extractLatestPositions
fetchLatestBalloonsWithMeta(hoursAgo, raw) ==
    LET ex == extractLatestPositions(raw)
        hasMeta == isRecord(raw)
        resolvedHoursAgo ==
            IF hasMeta /\ HasKey(raw, "hoursAgo") /\ isNumber(Get(raw, "hoursAgo"))
            THEN Get(raw, "hoursAgo").n ELSE hoursAgo
        resolvedSource ==
            IF hasMeta /\ HasKey(raw, "source") /\ Get(raw, "source") = JStr("cache")
            THEN "cache" ELSE "upstream"
        resolvedCacheAgeSeconds ==
            IF hasMeta /\ HasKey(raw, "cacheAgeSeconds") /\ isNumber(Get(raw, "cacheAgeSeconds"))
            THEN <<Get(raw, "cacheAgeSeconds").n>> ELSE <<>>
    IN  [ok |-> ex.ok, msg |-> ex.msg, hoursAgo |-> resolvedHoursAgo,
         source |-> resolvedSource, cacheAgeSeconds |-> resolvedCacheAgeSeconds,
         points |-> ex.points]

\* ---------------------------------------------- what the API can answer
\* the body of a 200 answer of the route
Envelope(hoursAgo, source, cacheAge, data) ==
    JObj(<<KV("hoursAgo", JNum(hoursAgo)), KV("source", JStr(source))>>
         \o (IF source = "cache" THEN <<KV("cacheAgeSeconds", JNum(cacheAge))>> ELSE <<>>)
         \o <<KV("data", data)>>)

Cand(i) == JArr(<<JNum(Pos[i][1]), JNum(Pos[i][2])>>)

\* every flat list of at most MaxPoints candidates at positions of Pos
FlatPayloads == {JArr(l) : l \in SeqsUpTo({Cand(i) : i \in 1..Len(Pos)}, MaxPoints)}

SpecialPayloads == {
    \* a track list: the last points are Pos[2] and Pos[3]
    JArr(<<JArr(<<Cand(1), Cand(2)>>), JArr(<<Cand(3)>>)>>),
    \* lon/lat order and an attribute: Pos[3] with meta 7
    JArr(<<JArr(<<JNum(1800), JNum(0), JNum(7)>>)>>),
    \* one malformed and one out-of-range candidate after a good one
    JArr(<<Cand(1), JStr("x"), JArr(<<JNum(950), JNum(950)>>)>>),
    \* unrecognized shapes
    JNull,
    JNum(5),
    JArr(<<JStr("x"), Cand(1)>>),
    JObj(<<KV("data", JArr(<<Cand(1)>>))>>) }

ClientPayloads == FlatPayloads \cup SpecialPayloads

\* an upstream answer with any payload, a cache answer with some payloads
ApiBodies ==
    {Envelope(0, "upstream", 0, d) : d \in ClientPayloads}
    \cup {Envelope(1, "cache", 3, d) : d \in SpecialPayloads}

\* what fetchLatestBalloonsWithMeta(0) returns or throws for those bodies
ApiAnswers == {fetchLatestBalloonsWithMeta(0, raw) : raw \in ApiBodies}

\* the bodies of the lifecycle model: a list of one point, a list of two, an
\* unrecognized shape
FewBodies == {Envelope(0, "upstream", 0, d) :
                 d \in {JArr(<<Cand(1)>>), JArr(<<Cand(1), Cand(3)>>), JNum(5)}}

FewAnswers == {fetchLatestBalloonsWithMeta(0, body) : body \in FewBodies}

FetchFailed == "Failed to fetch"
BadJson == "Unexpected token in JSON"

\* ------------------------------------------------------------------- state
VARIABLES
    inFlight,         \* inFlightRef.current
    pollPc,           \* position of refreshBalloons: "idle", "fetch", "json"
    prevById,         \* prevByIdRef.current, the IdentityTable
    nextId,           \* nextIdRef.current
    fc,               \* fcRef.current: <<>> (null) or <<features>>
    error,            \* error state: Null or the message
    balloonsLoading,  \* balloonsLoading state
    freshness,        \* freshness state: <<>> (null) or <<record>>
    mintBase,         \* history: nextIdRef at the start of the last applied poll
    sameRun,          \* history: the last applied poll delivered the point
                      \* list of the applied poll before it
    running,          \* history: invocations of refreshBalloons that passed the
                      \* lock and have not reached the end of finally
    skipped,          \* history: a trigger arrived during the poll in flight
    polled,           \* history: the point list the last applied poll delivered
    mounted,          \* the component is mounted: the interval is set
    mapState,         \* mapRef.current and its source "balloons": "notoken" (no
                      \* map was created), "loading" (map without the source),
                      \* "ready" (source added), "removed" (after map.remove())
    shown,            \* the data of the source: <<>> (no source) or <<features>>
    exit              \* history: how the latest invocation past the lock left:
                      \* "none" (there was none), "running" (it has not left),
                      \* "threw", "nomap", "nosource" or "shown"

clientVars == <<inFlight, pollPc, prevById, nextId, fc, error, balloonsLoading,
                freshness, mintBase, sameRun, running, skipped, polled, mounted,
                mapState, shown, exit>>

VARIABLES
    balloonCache,     \* globalThis.__balloonCache: <<>> (undefined) or <<entry>>
    now,              \* Date.now() in milliseconds
    req,              \* the requests being served: position and locals of GET,
                      \* the response, and the history of its bucket attempts
    lastGood,         \* history: <<>> or <<payload of the latest successful fetch>>
    lastFallback      \* history: <<>> or <<answer of the latest request whose
                      \* buckets all failed>>, cleared by a successful fetch

serverVars == <<balloonCache, now, req, lastGood, lastFallback>>

VARIABLES
    raw,              \* the parsed body handed to extractLatestPositions / normalizePoint
    extracted,        \* <<>> or <<what extractLatestPositions(raw) returned or threw>>
    normalized,       \* <<>> or <<what normalizePoint(raw) returned>>
    delivered         \* <<>> or <<what the client gets when upstream answers raw>>

normVars == <<raw, extracted, normalized, delivered>>

VARIABLES
    contextCache,     \* globalThis.__contextCache: <<>> (undefined) or <<the Map>>
    rarityGrid,       \* globalThis.__rarityGrid: <<>> (undefined) or <<grid>>
    ctxNow,           \* Date.now() of the context route, in milliseconds
    ctxReq            \* the requests of GET /api/context being served: position,
                      \* locals and response

contextVars == <<contextCache, rarityGrid, ctxNow, ctxReq>>

VARIABLES
    selected,         \* selected state: <<>> (null) or <<[id, lat, lon, meta]>>
    context,          \* context state: <<>> (null) or <<data or error>>
    contextLoading,   \* contextLoading state
    ctxCalls          \* the invocations of the context effect whose fetch has
                      \* not settled, oldest first: the selection each closed over

panelVars == <<selected, context, contextLoading, ctxCalls>>

vars == <<inFlight, pollPc, prevById, nextId, fc, error, balloonsLoading,
          freshness, mintBase, sameRun, running, skipped, polled, mounted,
          mapState, shown, exit,
          balloonCache, now, req, lastGood, lastFallback, raw, extracted, normalized,
          delivered, contextCache, rarityGrid, ctxNow, ctxReq,
          selected, context, contextLoading, ctxCalls>>

ClientInit ==
    /\ inFlight = FALSE
    /\ pollPc = "idle"
    /\ prevById = <<>>
    /\ nextId = 1
    /\ fc = <<>>
    /\ error = Null
    /\ balloonsLoading = FALSE
    /\ freshness = <<>>
    /\ mintBase = 1
    /\ sameRun = FALSE
    /\ running = 0
    /\ skipped = FALSE
    /\ polled = <<>>
    /\ mounted = TRUE
    /\ mapState = "loading"
    /\ shown = <<>>
    /\ exit = "none"

\* ------------------------------------------------------------ refreshBalloons
\* variant: a failed poll clears the table and restarts the counter
PollThrowsResetting(msg) ==
    /\ error' = (IF mounted THEN msg ELSE error)
    /\ balloonsLoading' = (IF mounted THEN FALSE ELSE balloonsLoading)
    /\ inFlight' = FALSE
    /\ pollPc' = "idle"
    /\ prevById' = <<>>
    /\ nextId' = 1
    /\ running' = running - 1
    /\ skipped' = FALSE
    /\ exit' = "threw"
    /\ UNCHANGED <<fc, freshness, mintBase, sameRun, polled, mounted, mapState, shown,
                   serverVars, normVars, contextVars, panelVars>>

\* variant: the catch block swallows the error
PollThrowsSilent(msg) ==
    /\ inFlight' = FALSE
    /\ balloonsLoading' = (IF mounted THEN FALSE ELSE balloonsLoading)
    /\ pollPc' = "idle"
    /\ running' = running - 1
    /\ skipped' = FALSE
    /\ exit' = "threw"
    /\ UNCHANGED <<prevById, nextId, fc, error, freshness, mintBase, sameRun, polled,
                   mounted, mapState, shown, serverVars, normVars, contextVars, panelVars>>

\* catch and finally of refreshBalloons (the setters of an unmounted component
\* change nothing)
PollThrows(msg) ==
    /\ error' = (IF mounted THEN msg ELSE error)
    /\ balloonsLoading' = (IF mounted THEN FALSE ELSE balloonsLoading)
    /\ inFlight' = FALSE
    /\ pollPc' = "idle"
    /\ running' = running - 1
    /\ skipped' = FALSE
    /\ exit' = "threw"
    /\ UNCHANGED <<prevById, nextId, fc, freshness, mintBase, sameRun, polled, mounted,
                   mapState, shown, serverVars, normVars, contextVars, panelVars>>

\* variant: no hard lock, every trigger starts a poll
PollStartUnguarded ==
    /\ mounted
    /\ running <= 1
    /\ inFlight' = TRUE
    /\ balloonsLoading' = TRUE
    /\ error' = Null
    /\ pollPc' = "fetch"
    /\ running' = running + 1
    /\ exit' = "running"
    /\ UNCHANGED <<prevById, nextId, fc, freshness, mintBase, sameRun, skipped, polled,
                   mounted, mapState, shown, serverVars, normVars, contextVars, panelVars>>

\* a trigger (startup call, interval tick, Refresh button) with no poll in flight
PollStart ==
    /\ mounted
    /\ ~inFlight
    /\ inFlight' = TRUE
    /\ balloonsLoading' = TRUE
    /\ error' = Null
    /\ pollPc' = "fetch"
    /\ running' = running + 1
    /\ exit' = "running"
    /\ UNCHANGED <<prevById, nextId, fc, freshness, mintBase, sameRun, skipped, polled,
                   mounted, mapState, shown, serverVars, normVars, contextVars, panelVars>>

\* a trigger while a poll is in flight: the hard lock returns at once
PollSkipped ==
    /\ mounted
    /\ inFlight
    /\ skipped' = TRUE
    /\ UNCHANGED <<inFlight, pollPc, prevById, nextId, fc, error, balloonsLoading,
                   freshness, mintBase, sameRun, running, polled, mounted, mapState,
                   shown, exit, serverVars, normVars, contextVars, panelVars>>

\* fetch() rejects: transport error
FetchRejects ==
    /\ pollPc = "fetch"
    /\ PollThrows(FetchFailed)

\* fetch() resolves with a non-2xx status
FetchNotOk ==
    /\ pollPc = "fetch"
    /\ \E status \in {502} : PollThrows(ApiFailed(status))

\* fetch() resolves with a 2xx status; res.json() is awaited next
FetchOk ==
    /\ pollPc = "fetch"
    /\ pollPc' = "json"
    /\ UNCHANGED <<inFlight, prevById, nextId, fc, error, balloonsLoading, freshness,
                   mintBase, sameRun, running, skipped, polled, mounted, mapState,
                   shown, exit, serverVars, normVars, contextVars, panelVars>>

\* res.json() rejects
JsonRejects ==
    /\ pollPc = "json"
    /\ PollThrows(BadJson)

\* the positions of a point list or feature list, in order
Positions(l) == [i \in 1..Len(l) |-> <<l[i].lat, l[i].lon>>]

\* the identifiers of a feature list or of the IdentityTable, in order
Ids(l) == [i \in 1..Len(l) |-> l[i].id]

Feature(p) == [id |-> p.id, lat |-> p.lat, lon |-> p.lon, meta |-> p.meta,
               windSpeedMs |-> <<>>, windBin |-> "w0"]

\* variant: the two early returns leave without running finally
JsonResolvesFromLeavingLocked(few) ==
    /\ pollPc = "json"
    /\ \E payload \in IF few THEN FewAnswers ELSE ApiAnswers :
            IF ~payload.ok THEN PollThrows(payload.msg)
            ELSE \E st \in {assignStableIds(payload.points, prevById, nextId)} :
                     /\ st.nextId <= MaxNextId
                     /\ prevById' = st.prevById
                     /\ nextId' = st.nextId
                     /\ mintBase' = nextId
                     /\ sameRun' = (fc # <<>> /\ Positions(fc[1]) = Positions(payload.points))
                     /\ freshness' = (IF mounted
                                      THEN << [hoursAgo |-> payload.hoursAgo,
                                               source |-> payload.source,
                                               cacheAgeSeconds |-> payload.cacheAgeSeconds,
                                               points |-> Len(st.out)] >>
                                      ELSE freshness)
                     /\ fc' = << [i \in 1..Len(st.out) |-> Feature(st.out[i])] >>
                     /\ balloonsLoading' = (IF mounted /\ mapState = "ready" THEN FALSE
                                            ELSE balloonsLoading)
                     /\ inFlight' = (mapState # "ready")
                     /\ pollPc' = "idle"
                     /\ running' = running - 1
                     /\ skipped' = FALSE
                     /\ polled' = payload.points
                     /\ shown' = IF mapState = "ready" THEN fc' ELSE shown
                     /\ exit' = CASE mapState = "ready" -> "shown"
                                  [] mapState = "loading" -> "nosource"
                                  [] OTHER -> "nomap"
                     /\ UNCHANGED <<error, mounted, mapState, serverVars, normVars, contextVars, panelVars>>

\* res.json() resolves and fetchLatestBalloonsWithMeta returns or throws: the
\* rest of refreshBalloons runs (few: the API answers with a body of
\* FewBodies; otherwise with any body of ApiBodies)
JsonResolvesFrom(few) ==
    /\ pollPc = "json"
    /\ \E payload \in IF few THEN FewAnswers ELSE ApiAnswers :
            IF ~payload.ok THEN PollThrows(payload.msg)
            ELSE \E st \in {assignStableIds(payload.points, prevById, nextId)} :
                     /\ st.nextId <= MaxNextId
                     /\ prevById' = st.prevById
                     /\ nextId' = st.nextId
                     /\ mintBase' = nextId
                     /\ sameRun' = (fc # <<>> /\ Positions(fc[1]) = Positions(payload.points))
                     /\ freshness' = (IF mounted
                                      THEN << [hoursAgo |-> payload.hoursAgo,
                                               source |-> payload.source,
                                               cacheAgeSeconds |-> payload.cacheAgeSeconds,
                                               points |-> Len(st.out)] >>
                                      ELSE freshness)
                     /\ fc' = << [i \in 1..Len(st.out) |-> Feature(st.out[i])] >>
                     /\ balloonsLoading' = (IF mounted THEN FALSE ELSE balloonsLoading)
                     /\ inFlight' = FALSE
                     /\ pollPc' = "idle"
                     /\ running' = running - 1
                     /\ skipped' = FALSE
                     /\ polled' = payload.points
                     /\ shown' = IF mapState = "ready" THEN fc' ELSE shown
                     /\ exit' = CASE mapState = "ready" -> "shown"
                                  [] mapState = "loading" -> "nosource"
                                  [] OTHER -> "nomap"
                     /\ UNCHANGED <<error, mounted, mapState, serverVars, normVars, contextVars, panelVars>>

\* the API answers with a body of ApiBodies
JsonResolves == JsonResolvesFrom(FALSE)


MissingToken == "Missing NEXT_PUBLIC_MAPBOX_TOKEN in .env.local"

\* the map fires "load": the source "balloons" is added with no features
MapLoads ==
    /\ mounted
    /\ mapState = "loading"
    /\ mapState' = "ready"
    /\ shown' = << <<>> >>
    /\ UNCHANGED <<inFlight, pollPc, prevById, nextId, fc, error, balloonsLoading,
                   freshness, mintBase, sameRun, running, skipped, polled, mounted,
                   exit, serverVars, normVars, contextVars, panelVars>>

\* variant: unmounting cancels the poll in flight
UnmountAborting ==
    /\ mounted
    /\ mounted' = FALSE
    /\ mapState' = (IF mapState = "notoken" THEN "notoken" ELSE "removed")
    /\ shown' = <<>>
    /\ inFlight' = FALSE
    /\ pollPc' = "idle"
    /\ running' = 0
    /\ exit' = (IF inFlight THEN "aborted" ELSE exit)
    /\ UNCHANGED <<prevById, nextId, fc, error, balloonsLoading,
                   freshness, mintBase, sameRun, skipped, polled,
                   serverVars, normVars, contextVars, panelVars>>

\* the component unmounts: the cleanups of the two effects run,
\* clearInterval(id) and map.remove(); mapRef.current = null
Unmount ==
    /\ mounted
    /\ mounted' = FALSE
    /\ mapState' = (IF mapState = "notoken" THEN "notoken" ELSE "removed")
    /\ shown' = <<>>
    /\ UNCHANGED <<inFlight, pollPc, prevById, nextId, fc, error, balloonsLoading,
                   freshness, mintBase, sameRun, running, skipped, polled, exit,
                   serverVars, normVars, contextVars, panelVars>>

\* ===================================================== GET /api/balloons
\* A query number is Number(searchParams.get("hoursAgo") ?? "0"):
\* [k, v] with k in "fin" (v in 1/Scale units), "nan", "inf", "ninf".
QNum(k, v) == [k |-> k, v |-> v]

QueryNumbers == {
    QNum("fin", 0), QNum("fin", -10), QNum("fin", 210), QNum("fin", 225),
    QNum("fin", 230), QNum("fin", 240), QNum("fin", 999),
    QNum("nan", 0), QNum("inf", 0), QNum("ninf", 0) }

\* variant: Math.round instead of Math.floor
clampHoursAgoRounding(v) ==
    IF v.k # "fin" THEN 0
    ELSE Max(0, Min(23, (2 * v.v + Scale) \div (2 * Scale)))

clampHoursAgo(v) ==
    IF v.k # "fin" THEN 0
    ELSE Max(0, Min(23, v.v \div Scale))

\* searchParams.get("hoursAgo"): <<>> (null, no such parameter) or <<text>>
QueryParams == {
    <<>>, <<"">>, <<" 7 ">>, <<"abc">>, <<"12px">>, <<"Infinity">>, <<"-Infinity">>,
    <<"1e999">>, <<"-1">>, <<"-0.5">>, <<"0">>, <<"0.9">>, <<"21">>, <<"22.5">>,
    <<"23">>, <<"23.9">>, <<"24">>, <<"99.9">> }

\* Number(text) for the texts of QueryParams: white space is trimmed, the
\* empty text is 0, a text that is no numeric literal is NaN, a literal beyond
\* the range of doubles is an infinity
NumberOf(text) ==
    CASE text = "" -> QNum("fin", 0)
      [] text = " 7 " -> QNum("fin", 70)
      [] text = "abc" -> QNum("nan", 0)
      [] text = "12px" -> QNum("nan", 0)
      [] text = "Infinity" -> QNum("inf", 0)
      [] text = "-Infinity" -> QNum("ninf", 0)
      [] text = "1e999" -> QNum("inf", 0)
      [] text = "-1" -> QNum("fin", -10)
      [] text = "-0.5" -> QNum("fin", -5)
      [] text = "0" -> QNum("fin", 0)
      [] text = "0.9" -> QNum("fin", 9)
      [] text = "21" -> QNum("fin", 210)
      [] text = "22.5" -> QNum("fin", 225)
      [] text = "23" -> QNum("fin", 230)
      [] text = "23.9" -> QNum("fin", 239)
      [] text = "24" -> QNum("fin", 240)
      [] text = "99.9" -> QNum("fin", 999)

\* Number(searchParams.get("hoursAgo") ?? "0")
QueryNumber(param) == NumberOf(IF param = <<>> THEN "0" ELSE param[1])

\* the requests the fetcher model issues: one for every bucket from
\* MinRequested on
RequestInputs ==
    {param \in {<<"21">>, <<"22.5">>, <<"23">>} :
        clampHoursAgo(QueryNumber(param)) >= MinRequested}

\* the bodies upstream answers with: a falsy value, an empty list, a list
UpstreamPayloads == {JNull, JArr(<<>>), JArr(<<Cand(2)>>)}

\* how one bucket attempt fails: non-2xx status, or fetch/json rejecting
FailureKinds == {"status", "transport"}

\* lastError instanceof Error ? lastError.message : String(lastError)
Details(lastError) ==
    IF lastError = <<>> THEN <<>> ELSE lastError

\* Math.round(ageMs / 1000)
RoundSeconds(ageMs) == (ageMs + 500) \div 1000

Requests == {"q1", "q2"}

NoResp == [status |-> 0, hoursAgo |-> 0, source |-> Null, cacheAgeSeconds |-> <<>>,
           data |-> JNull, details |-> <<>>]

\* (query is the hoursAgo parameter the request came with)
IdleReq == [pc |-> "idle", query |-> <<>>, r |-> 0, h |-> 0, lastError |-> <<>>,
            resp |-> NoResp, tried |-> <<>>, failed |-> <<>>]

ServerInit ==
    /\ balloonCache = <<>>
    /\ now = 0
    /\ req = [q \in Requests |-> IdleReq]
    /\ lastGood = <<>>
    /\ lastFallback = <<>>

Tick ==
    /\ now < MaxClock * TickMs
    /\ now' = now + TickMs
    /\ UNCHANGED <<balloonCache, req, lastGood, lastFallback, clientVars, normVars, contextVars, panelVars>>

\* GET starts: clamp the input, build the chain, call fetchUpstream(r) (any:
\* the hoursAgo parameter is any of QueryParams; otherwise one of
\* RequestInputs)
GetStartFrom(q, any) ==
    /\ req[q].pc # "await"
    /\ \E param \in IF any THEN QueryParams ELSE RequestInputs :
        LET requestedHoursAgo == clampHoursAgo(QueryNumber(param))
        IN  req' = [req EXCEPT ![q] = [pc |-> "await", query |-> param,
                                        r |-> requestedHoursAgo,
                                        h |-> requestedHoursAgo, lastError |-> <<>>,
                                        resp |-> NoResp,
                                        tried |-> <<requestedHoursAgo>>, failed |-> <<>>]]
    /\ UNCHANGED <<balloonCache, now, lastGood, lastFallback, clientVars, normVars, contextVars, panelVars>>

GetStart(q) == GetStartFrom(q, FALSE)

\* variant: a filled slot is kept, only an empty one is written
AttemptSucceedsKeepingSlot(q) ==
    /\ req[q].pc = "await"
    /\ \E data \in UpstreamPayloads :
        /\ balloonCache' = IF balloonCache # <<>> THEN balloonCache
                           ELSE << [timestampMs |-> now, hoursAgo |-> req[q].h, data |-> data] >>
        /\ lastGood' = <<data>>
        /\ lastFallback' = <<>>
        /\ req' = [req EXCEPT ![q].pc = "done",
                              ![q].resp = [status |-> 200, hoursAgo |-> req[q].h,
                                           source |-> "upstream", cacheAgeSeconds |-> <<>>,
                                           data |-> data, details |-> <<>>]]
    /\ UNCHANGED <<now, clientVars, normVars, contextVars, panelVars>>

\* variant: the slot is written only with a payload the client can read
AttemptSucceedsValidating(q) ==
    /\ req[q].pc = "await"
    /\ \E data \in UpstreamPayloads :
        /\ balloonCache' = IF extractLatestPositions(data).ok
                           THEN << [timestampMs |-> now, hoursAgo |-> req[q].h, data |-> data] >>
                           ELSE balloonCache
        /\ lastGood' = <<data>>
        /\ lastFallback' = <<>>
        /\ req' = [req EXCEPT ![q].pc = "done",
                              ![q].resp = [status |-> 200, hoursAgo |-> req[q].h,
                                           source |-> "upstream", cacheAgeSeconds |-> <<>>,
                                           data |-> data, details |-> <<>>]]
    /\ UNCHANGED <<now, clientVars, normVars, contextVars, panelVars>>

\* fetchUpstream(h) returns data: cache it and answer
AttemptSucceeds(q) ==
    /\ req[q].pc = "await"
    /\ \E data \in UpstreamPayloads :
        /\ balloonCache' = << [timestampMs |-> now, hoursAgo |-> req[q].h, data |-> data] >>
        /\ lastGood' = <<data>>
        /\ lastFallback' = <<>>
        /\ req' = [req EXCEPT ![q].pc = "done",
                              ![q].resp = [status |-> 200, hoursAgo |-> req[q].h,
                                           source |-> "upstream", cacheAgeSeconds |-> <<>>,
                                           data |-> data, details |-> <<>>]]
    /\ UNCHANGED <<now, clientVars, normVars, contextVars, panelVars>>

\* variant: the cache answer carries no cacheAgeSeconds
FallbackWithoutAge(lastError) ==
    IF balloonCache # <<>> /\ Truthy(balloonCache[1].data)
    THEN [status |-> 200, hoursAgo |-> balloonCache[1].hoursAgo, source |-> "cache",
          cacheAgeSeconds |-> <<>>,
          data |-> balloonCache[1].data, details |-> <<>>]
    ELSE [status |-> 502, hoursAgo |-> 0, source |-> Null, cacheAgeSeconds |-> <<>>,
          data |-> JNull, details |-> Details(lastError)]

\* steps 2 and 3 of GET, after the loop
Fallback(lastError) ==
    IF balloonCache # <<>> /\ Truthy(balloonCache[1].data)
    THEN [status |-> 200, hoursAgo |-> balloonCache[1].hoursAgo, source |-> "cache",
          cacheAgeSeconds |-> <<RoundSeconds(now - balloonCache[1].timestampMs)>>,
          data |-> balloonCache[1].data, details |-> <<>>]
    ELSE [status |-> 502, hoursAgo |-> 0, source |-> Null, cacheAgeSeconds |-> <<>>,
          data |-> JNull, details |-> Details(lastError)]

\* variant: after a failure the chain skips one bucket
AttemptFailsSkipping(q) ==
    /\ req[q].pc = "await"
    /\ \E kind \in FailureKinds :
        LET h == req[q].h
            lastError == <<[bucket |-> h, kind |-> kind]>>
        IN  IF h < OLDEST
            THEN /\ req' = [req EXCEPT ![q].h = Min(h + 2, OLDEST),
                                       ![q].lastError = lastError,
                                       ![q].tried = Append(@, Min(h + 2, OLDEST)),
                                       ![q].failed = Append(@, h)]
                 /\ UNCHANGED lastFallback
            ELSE /\ req' = [req EXCEPT ![q].pc = "done",
                                       ![q].lastError = lastError,
                                       ![q].failed = Append(@, h),
                                       ![q].resp = Fallback(lastError)]
                 /\ lastFallback' = <<Fallback(lastError)>>
    /\ UNCHANGED <<balloonCache, now, lastGood, clientVars, normVars, contextVars, panelVars>>

\* variant: serving from the cache refreshes the timestamp of the slot
AttemptFailsTouchingSlot(q) ==
    /\ req[q].pc = "await"
    /\ \E kind \in FailureKinds :
        LET h == req[q].h
            lastError == <<[bucket |-> h, kind |-> kind]>>
        IN  IF h < OLDEST
            THEN /\ req' = [req EXCEPT ![q].h = h + 1,
                                       ![q].lastError = lastError,
                                       ![q].tried = Append(@, h + 1),
                                       ![q].failed = Append(@, h)]
                 /\ UNCHANGED <<lastFallback, balloonCache>>
            ELSE /\ req' = [req EXCEPT ![q].pc = "done",
                                       ![q].lastError = lastError,
                                       ![q].failed = Append(@, h),
                                       ![q].resp = Fallback(lastError)]
                 /\ lastFallback' = <<Fallback(lastError)>>
                 /\ balloonCache' = IF balloonCache # <<>> /\ Truthy(balloonCache[1].data)
                                    THEN <<[balloonCache[1] EXCEPT !.timestampMs = now]>>
                                    ELSE balloonCache
    /\ UNCHANGED <<now, lastGood, clientVars, normVars, contextVars, panelVars>>

\* variant: lastError keeps the first error of the request
AttemptFailsFirstError(q) ==
    /\ req[q].pc = "await"
    /\ \E kind \in FailureKinds :
        LET h == req[q].h
            lastError == IF req[q].lastError # <<>> THEN req[q].lastError
                         ELSE <<[bucket |-> h, kind |-> kind]>>
        IN  IF h < OLDEST
            THEN /\ req' = [req EXCEPT ![q].h = h + 1,
                                       ![q].lastError = lastError,
                                       ![q].tried = Append(@, h + 1),
                                       ![q].failed = Append(@, h)]
                 /\ UNCHANGED lastFallback
            ELSE /\ req' = [req EXCEPT ![q].pc = "done",
                                       ![q].lastError = lastError,
                                       ![q].failed = Append(@, h),
                                       ![q].resp = Fallback(lastError)]
                 /\ lastFallback' = <<Fallback(lastError)>>
    /\ UNCHANGED <<balloonCache, now, lastGood, clientVars, normVars, contextVars, panelVars>>

\* fetchUpstream(h) throws: try the next older bucket, or leave the loop
AttemptFails(q) ==
    /\ req[q].pc = "await"
    /\ \E kind \in FailureKinds :
        LET h == req[q].h
            lastError == <<[bucket |-> h, kind |-> kind]>>
        IN  IF h < OLDEST
            THEN /\ req' = [req EXCEPT ![q].h = h + 1,
                                       ![q].lastError = lastError,
                                       ![q].tried = Append(@, h + 1),
                                       ![q].failed = Append(@, h)]
                 /\ UNCHANGED lastFallback
            ELSE /\ req' = [req EXCEPT ![q].pc = "done",
                                       ![q].lastError = lastError,
                                       ![q].failed = Append(@, h),
                                       ![q].resp = Fallback(lastError)]
                 /\ lastFallback' = <<Fallback(lastError)>>
    /\ UNCHANGED <<balloonCache, now, lastGood, clientVars, normVars, contextVars, panelVars>>

\* ======================================================= the normalizer
\* extractLatestPositions and normalizePoint applied to one parsed body.
Coordinates == {-1801, -1800, -901, -900, 0, 900, 901, 1800, 1801}

Attributes == {JNum(7), JInf, JStr("s"), JNull}

Good1 == JArr(<<JNum(0), JNum(1789)>>)
Good2 == JArr(<<JNum(1800), JNum(0), JNum(7)>>)

\* what normalizePoint is given: every pair of Coordinates, a third entry of
\* every kind, and values that are no pair of numbers
CandidateInputs ==
    {JArr(<<JNum(a), JNum(b)>>) : a, b \in Coordinates}
    \cup {JArr(<<JNum(901), JNum(0), m>>) : m \in Attributes}
    \cup {JArr(<<JNum(0), JNum(1801), m>>) : m \in Attributes}
    \cup {JStr("x"), JNull, JNum(5), JArr(<<>>), JArr(<<JNum(5)>>),
          JArr(<<JStr("a"), JNum(0)>>), JArr(<<JNum(0), JInf>>), JArr(<<JInf, JNum(0)>>),
          JObj(<<KV("0", JNum(0)), KV("1", JNum(0))>>)}

\* the elements of the flat lists: two points, an out-of-range pair and four
\* values that are no pair of numbers
ListElements ==
    {Good1, Good2, JArr(<<JNum(950), JNum(950)>>), JStr("x"), JArr(<<JNum(5)>>),
     JArr(<<JStr("a"), JNum(0)>>), JArr(<<JInf, JNum(0)>>)}

\* the elements of the track lists
TrackElements ==
    {JArr(<<>>), JArr(<<Good1>>), JArr(<<Good1, Good2>>), JArr(<<Good1, JStr("x")>>),
     JArr(<<JArr(<<JNum(950), JNum(950)>>), Good1>>), JStr("x")}

ListInputs ==
    {JArr(l) : l \in SeqsUpTo(ListElements, MaxLen)}
    \cup {JArr(l) : l \in SeqsUpTo(TrackElements, MaxLen)}

\* n copies of s
RECURSIVE Repeat(_, _)
Repeat(s, n) ==
    IF n = 0 THEN ""
    ELSE Repeat(s, n \div 2) \o Repeat(s, n \div 2) \o (IF n % 2 = 1 THEN s ELSE "")

\* strings whose JSON text is 1 short of, as long as, 1 longer and much
\* longer than the preview
LongTexts == {JStr(Repeat("x", PreviewLen - k)) : k \in {3, 2, 1}}
             \cup {JStr(Repeat("x", 2 * PreviewLen))}

\* bodies that are no list, and lists inside the wrapper of the route
OtherInputs ==
    {JNull, JNum(5), JStr("x"), JBool(TRUE),
     JObj(<<KV("other", JArr(<<Good1>>))>>), JObj(<<KV("data", JNull)>>)}
    \cup LongTexts
    \cup {JObj(<<KV("data", t)>>) : t \in LongTexts}
    \cup {JObj(<<KV("source", JStr("upstream")), KV("data", JArr(l))>>) :
             l \in SeqsUpTo({Good1, JStr("x")}, 2)}

NormalizerInputs == CandidateInputs \cup ListInputs \cup OtherInputs

NormIdle ==
    /\ raw = JNull
    /\ extracted = <<>>
    /\ normalized = <<>>
    /\ delivered = <<>>

\* extractLatestPositions(raw) runs
Extract ==
    /\ extracted = <<>>
    /\ extracted' = <<extractLatestPositions(raw)>>
    /\ UNCHANGED <<raw, normalized, delivered, clientVars, serverVars, contextVars, panelVars>>

\* normalizePoint(raw) runs
Normalize ==
    /\ normalized = <<>>
    /\ normalized' = <<normalizePoint(raw)>>
    /\ UNCHANGED <<raw, extracted, delivered, clientVars, serverVars, contextVars, panelVars>>

\* upstream answers bucket 0 with the body raw: the route wraps it in its own
\* envelope and the client helper extracts the points from that answer
Deliver ==
    /\ delivered = <<>>
    /\ delivered' = <<fetchLatestBalloonsWithMeta(0, Envelope(0, "upstream", 0, raw))>>
    /\ UNCHANGED <<raw, extracted, normalized, clientVars, serverVars, contextVars, panelVars>>

\* ================================================ the route GET /api/context
\* Coordinates of this route are integers in units of 1/Milli degree; no
\* input of the model lies halfway between two hundredths.
CtxTtlMs == 10 * 60000

\* milliseconds per tick of the clock of this route (representation)
CtxTickMs == CtxTtlMs \div 2

\* the lat and lon parameters of a request: <<>> is a missing parameter
LatParams == {<<>>, <<"1.231">>, <<"1.234">>, <<"1.236">>, <<"90.001">>}
LonParams == {<<"abc">>, <<"2.5">>, <<"180.001">>}

\* Number(v) of a parameter text: <<>> is NaN
CtxNumberOf(text) ==
    CASE text = "1.231" -> <<1231>>
      [] text = "1.234" -> <<1234>>
      [] text = "1.236" -> <<1236>>
      [] text = "90.001" -> <<90001>>
      [] text = "2.5" -> <<2500>>
      [] text = "180.001" -> <<180001>>
      [] OTHER -> <<>>

\* <<>> is null
toNum(v) == IF v = <<>> THEN <<>> ELSE CtxNumberOf(v[1])

\* Number.prototype.toFixed(2)
toFixed2(m) ==
    LET h == (Abs(m) * 100 + Milli \div 2) \div Milli
    IN  (IF m < 0 THEN "-" ELSE "") \o ToString(h \div 100) \o "."
            \o (IF h % 100 < 10 THEN "0" ELSE "") \o ToString(h % 100)

\* `${lat.toFixed(2)},${lon.toFixed(2)}`
CacheKey(lat, lon) == toFixed2(lat) \o "," \o toFixed2(lon)

ValidLats == {lat \in UNION {Range(toNum(v)) : v \in LatParams} : Abs(lat) <= 90 * Milli}
ValidLons == {lon \in UNION {Range(toNum(v)) : v \in LonParams} : Abs(lon) <= 180 * Milli}

\* the keys the Map can get: a Map is a function on them, <<>> where it has
\* no entry, <<[ts, value, at]>> where it has one (at is history: the time
\* of the set call)
CtxKeys == {CacheKey(lat, lon) : lat \in ValidLats, lon \in ValidLons}

EmptyMap == [k \in CtxKeys |-> <<>>]

\* variant: an entry is served up to and including its tenth minute
FreshInclusive(cached, at) == at - cached.ts <= CtxTtlMs

\* now - cached.ts < 10 * 60_000
Fresh(cached, at) == at - cached.ts < CtxTtlMs

clampLon(lon) ==
    IF lon < -180 * Milli THEN lon + 360 * Milli
    ELSE IF lon >= 180 * Milli THEN lon - 360 * Milli
    ELSE lon

cellKey(lat, lon, resDeg) ==
    ToString((lat + 90 * Milli) \div (resDeg * Milli)) \o ","
        \o ToString((clampLon(lon) + 180 * Milli) \div (resDeg * Milli))

rarityLabel(score) ==
    IF score >= 90 THEN "very rare"
    ELSE IF score >= 70 THEN "rare"
    ELSE IF score >= 40 THEN "uncommon"
    ELSE "common"

\* public/rarity-grid.json: one populated cell, the one of (1.23.., 2.5)
Grid == [resDeg |-> 2,
         cells |-> [k \in {"45,91"} |->
                       [surface |-> 3, upper |-> 1, density |-> 4, rarity |-> 72]]]

\* the rarity member of the value
RarityAt(lat, lon, grid) ==
    LET k == cellKey(lat, lon, grid.resDeg)
        has == k \in DOMAIN grid.cells
        score == IF has THEN grid.cells[k].rarity ELSE 100
    IN  [score |-> score,
         label |-> rarityLabel(score),
         surfaceStationsInCell |-> IF has THEN grid.cells[k].surface ELSE 0,
         upperAirStationsInCell |-> IF has THEN grid.cells[k].upper ELSE 0,
         resDeg |-> grid.resDeg]

isStringArray(x) == x.t = "arr" /\ \A i \in 1..Len(x.a) : x.a[i].t = "str"

isNumberArray(x) == x.t = "arr" /\ \A i \in 1..Len(x.a) : x.a[i].t = "num"

\* x[k] of a parsed JSON value: undefined reads as null
Member(x, k) == IF HasKey(x, k) THEN Get(x, k) ELSE JNull

\* Date.parse of the time texts of the model: <<>> is NaN
ParseTime(text) ==
    CASE text = "1970-01-01T00:00Z" -> <<0>>
      [] text = "1970-01-01T01:00Z" -> <<6 * CtxTtlMs>>
      [] OTHER -> <<>>

Hourly(times, ws, wd) ==
    JObj(<<KV("time", JArr(times)), KV("wind_speed_250hPa", JArr(ws)),
           KV("wind_direction_250hPa", JArr(wd))>>)

\* what Open-Meteo can answer: res.ok and the parsed body
OmAnswers == {
    [ok |-> TRUE,
     json |-> JObj(<<KV("hourly",
                        Hourly(<<JStr("1970-01-01T00:00Z"), JStr("1970-01-01T01:00Z")>>,
                               <<JNum(25), JNum(50)>>, <<JNum(270), JNum(280)>>))>>)],
    [ok |-> FALSE, json |-> JObj(<<KV("reason", JStr("Too many requests"))>>)],
    [ok |-> TRUE, json |-> JNum(5)],
    [ok |-> TRUE, json |-> JObj(<<KV("error", JBool(TRUE)), KV("reason", JStr("bad"))>>)],
    [ok |-> TRUE, json |-> JObj(<<KV("hourly", Hourly(<<>>, <<>>, <<>>))>>)]}

\* a response of the route: error and reason are Null, value is <<>>, where
\* the body has no such member; cache.hit is the member hit of the value
CtxAnswer(status, message, reason, value) ==
    [status |-> status, error |-> message, reason |-> reason, value |-> value]

NoCtxAnswer == CtxAnswer(0, Null, Null, <<>>)

ReasonOf(omJson) ==
    IF Member(omJson, "reason").t = "str" THEN Member(omJson, "reason").s ELSE "Unknown"

\* the last index whose time parses and is not after nowMs, the first otherwise
HourIndex(times, nowMs) ==
    LET past == {i \in 1..Len(times) :
                    /\ ParseTime(times[i].s) # <<>>
                    /\ ParseTime(times[i].s)[1] <= nowMs}
    IN  IF past = {} THEN 1 ELSE CHOOSE i \in past : \A j \in past : j <= i

\* GET from the answer of Open-Meteo to the call of loadGrid: the error
\* response, or the jet member of the value
ReadOm(om, nowMs) ==
    LET omJson == om.json
        hourly == Member(omJson, "hourly")
        times == Member(hourly, "time")
        ws == Member(hourly, "wind_speed_250hPa")
        wd == Member(hourly, "wind_direction_250hPa")
    IN  IF ~om.ok
            THEN [ok |-> FALSE,
                  resp |-> CtxAnswer(502, "Open-Meteo failed",
                                     IF isRecord(omJson) THEN ReasonOf(omJson) ELSE "Unknown",
                                     <<>>)]
        ELSE IF ~isRecord(omJson)
            THEN [ok |-> FALSE,
                  resp |-> CtxAnswer(502, "Open-Meteo invalid JSON shape", Null, <<>>)]
        ELSE IF Member(omJson, "error") = JBool(TRUE)
            THEN [ok |-> FALSE,
                  resp |-> CtxAnswer(502, "Open-Meteo failed", ReasonOf(omJson), <<>>)]
        ELSE IF ~isRecord(hourly)
            THEN [ok |-> FALSE,
                  resp |-> CtxAnswer(502, "Open-Meteo missing hourly", Null, <<>>)]
        ELSE IF ~isStringArray(times) \/ ~isNumberArray(ws)
            THEN [ok |-> FALSE,
                  resp |-> CtxAnswer(502, "Open-Meteo missing arrays", Null, <<>>)]
        ELSE IF Len(times.a) = 0 \/ Len(ws.a) # Len(times.a)
            THEN [ok |-> FALSE,
                  resp |-> CtxAnswer(502, "Open-Meteo missing arrays", Null, <<>>)]
        ELSE LET idx == HourIndex(times.a, nowMs)
                 wdArr == IF isNumberArray(wd) THEN wd.a ELSE <<>>
             IN  [ok |-> TRUE,
                  jet |-> [validTime |-> times.a[idx].s,
                           speed_ms |-> ws.a[idx].n,
                           direction_deg |-> IF idx <= Len(wdArr) THEN <<wdArr[idx].n>>
                                             ELSE <<>>]]

CtxRequests == {"c1", "c2"}

NoJet == [validTime |-> "", speed_ms |-> 0, direction_deg |-> <<>>]

IdleCtx == [pc |-> "idle", lat |-> 0, lon |-> 0, key |-> "", now |-> 0, jet |-> NoJet,
            resp |-> NoCtxAnswer]

\* a request that has answered
Finished(c, resp) == [IdleCtx EXCEPT !.pc = "done", !.resp = resp]

ContextInit ==
    /\ contextCache = <<>>
    /\ rarityGrid = <<>>
    /\ ctxNow = 0
    /\ ctxReq = [q \in CtxRequests |-> IdleCtx]

CtxTick ==
    /\ ctxNow < MaxCtxClock * CtxTickMs
    /\ ctxNow' = ctxNow + CtxTickMs
    /\ UNCHANGED <<contextCache, rarityGrid, ctxReq, clientVars, serverVars, normVars,
                   panelVars>>

\* GET starts: validate, look the key up, answer 400 or the cached value, or
\* call Open-Meteo
CtxStart(q) ==
    /\ ctxReq[q].pc \in {"idle", "done"}
    /\ \E latP \in LatParams, lonP \in LonParams :
        \A lat \in {toNum(latP)} : \A lon \in {toNum(lonP)} :
        IF lat = <<>> \/ lon = <<>> \/ Abs(lat[1]) > 90 * Milli \/ Abs(lon[1]) > 180 * Milli
        THEN /\ ctxReq' = [ctxReq EXCEPT ![q] =
                             [IdleCtx EXCEPT !.pc = "done",
                                             !.resp = CtxAnswer(400, "Missing/invalid lat/lon",
                                                                Null, <<>>)]]
             /\ UNCHANGED contextCache
        ELSE \A key \in {CacheKey(lat[1], lon[1])} :
             \A map \in {IF contextCache = <<>> THEN EmptyMap ELSE contextCache[1]} :
                /\ contextCache' = <<map>>
                /\ IF map[key] # <<>> /\ Fresh(map[key][1], ctxNow)
                   THEN ctxReq' = [ctxReq EXCEPT ![q] =
                             [IdleCtx EXCEPT !.pc = "done", !.lat = lat[1], !.lon = lon[1],
                                             !.resp = CtxAnswer(200, Null, Null,
                                                        <<[map[key][1].value EXCEPT !.hit = TRUE]>>)]]
                   ELSE ctxReq' = [ctxReq EXCEPT ![q] =
                             [IdleCtx EXCEPT !.pc = "fetch", !.lat = lat[1], !.lon = lon[1],
                                             !.key = key, !.now = ctxNow]]
    /\ UNCHANGED <<rarityGrid, ctxNow, clientVars, serverVars, normVars, panelVars>>

\* fetch or omRes.json() rejects: GET throws and the framework answers 500
CtxFetchThrows(q) ==
    /\ ctxReq[q].pc = "fetch"
    /\ ctxReq' = [ctxReq EXCEPT ![q] = Finished(ctxReq[q], CtxAnswer(500, Null, Null, <<>>))]
    /\ UNCHANGED <<contextCache, rarityGrid, ctxNow, clientVars, serverVars, normVars,
                   panelVars>>

\* Open-Meteo answers: an error response, or the hour is picked and loadGrid
\* is called
CtxFetched(q) ==
    /\ ctxReq[q].pc = "fetch"
    /\ \E om \in OmAnswers :
        \A r \in {ReadOm(om, ctxNow)} :
            IF r.ok
            THEN ctxReq' = [ctxReq EXCEPT ![q].pc = "grid", ![q].jet = r.jet]
            ELSE ctxReq' = [ctxReq EXCEPT ![q] = Finished(ctxReq[q], r.resp)]
    /\ UNCHANGED <<contextCache, rarityGrid, ctxNow, clientVars, serverVars, normVars,
                   panelVars>>

\* loadGrid rejects (the file cannot be read or parsed): GET throws
CtxGridThrows(q) ==
    /\ ctxReq[q].pc = "grid"
    /\ rarityGrid = <<>>
    /\ ctxReq' = [ctxReq EXCEPT ![q] = Finished(ctxReq[q], CtxAnswer(500, Null, Null, <<>>))]
    /\ UNCHANGED <<contextCache, rarityGrid, ctxNow, clientVars, serverVars, normVars,
                   panelVars>>

\* loadGrid returns the grid: build the value, store it under the key with
\* the time of the start of the request, answer it
CtxGridLoaded(q) ==
    /\ ctxReq[q].pc = "grid"
    /\ rarityGrid' = <<Grid>>
    /\ \A c \in {ctxReq[q]} :
       \A value \in {[requested |-> [lat |-> c.lat, lon |-> c.lon],
                      jet |-> c.jet,
                      rarity |-> RarityAt(c.lat, c.lon, Grid),
                      hit |-> FALSE]} :
            /\ contextCache' = <<[contextCache[1] EXCEPT
                                    ![c.key] = <<[ts |-> c.now, value |-> value,
                                                  at |-> ctxNow]>>]>>
            /\ ctxReq' = [ctxReq EXCEPT ![q] = Finished(c, CtxAnswer(200, Null, Null, <<value>>))]
    /\ UNCHANGED <<ctxNow, clientVars, serverVars, normVars, panelVars>>

\* ===================================================== the context panel
\* BalloonPanel.tsx windBin250
windBin250(speedMs) ==
    IF speedMs >= 45 THEN "w3"
    ELSE IF speedMs >= 30 THEN "w2"
    ELSE IF speedMs >= 20 THEN "w1"
    ELSE "w0"

\* how the fetch of /api/context settles for the effect: a 200 answer with
\* the wind speed, a non-2xx answer with or without an error member, or a
\* rejection of fetch or res.json()
ContextOutcomes == {
    [kind |-> "data", speed_ms |-> 50, error |-> Null],
    [kind |-> "notok", speed_ms |-> 0, error |-> "Open-Meteo failed"],
    [kind |-> "notok", speed_ms |-> 0, error |-> Null],
    [kind |-> "rejects", speed_ms |-> 0, error |-> FetchFailed]}

PanelInit ==
    /\ selected = <<>>
    /\ context = <<>>
    /\ contextLoading = FALSE
    /\ ctxCalls = <<>>

\* a click on a point of the layer "unclustered": setSelected, and the
\* context effect runs for the new selection up to its fetch (current is
\* history: the call is the one issued for the present selection)
Select ==
    /\ mounted
    /\ mapState = "ready"
    /\ Len(ctxCalls) < MaxCalls
    /\ \E i \in 1..Len(shown[1]) :
        \A f \in {shown[1][i]} :
        \A sel \in {[id |-> f.id, lat |-> f.lat, lon |-> f.lon, meta |-> f.meta]} :
            /\ selected' = <<sel>>
            /\ contextLoading' = TRUE
            /\ context' = <<>>
            /\ ctxCalls' = Append([k \in 1..Len(ctxCalls) |->
                                      [ctxCalls[k] EXCEPT !.current = FALSE]],
                                  [sel |-> sel, current |-> TRUE])
    /\ UNCHANGED <<clientVars, serverVars, normVars, contextVars>>

\* onClose: setSelected(null); the effect returns at once
ClosePanel ==
    /\ mounted
    /\ selected # <<>>
    /\ selected' = <<>>
    /\ ctxCalls' = [k \in 1..Len(ctxCalls) |-> [ctxCalls[k] EXCEPT !.current = FALSE]]
    /\ UNCHANGED <<context, contextLoading, clientVars, serverVars, normVars, contextVars>>

\* the first feature of fc with the identifier gets the wind speed and bin
WithWind(features, id, speed) ==
    LET hits == {i \in 1..Len(features) : features[i].id = id}
    IN  IF hits = {} THEN features
        ELSE \* the loop breaks at the first hit
             LET first == CHOOSE i \in hits : \A j \in hits : i <= j
             IN  [features EXCEPT ![first] =
                     [@ EXCEPT !.windSpeedMs = <<speed>>, !.windBin = windBin250(speed)]]

\* what the effect stores for an outcome: the data or the error (of and
\* current are history: the selection and the standing of the call)
ContextOf(call, outcome) ==
    [error |-> CASE outcome.kind = "data" -> Null
                 [] outcome.kind = "rejects" -> outcome.error
                 [] OTHER -> IF outcome.error # Null THEN outcome.error
                             ELSE "Context API failed",
     speed_ms |-> outcome.speed_ms,
     of |-> call.sel,
     current |-> call.current]

\* the fetch of invocation i of the context effect settles, in any order:
\* setContext with the data or the error, the wind written into fcRef and
\* given to the source, and setContextLoading(false) in finally
ContextSettles(i, outcome) ==
    /\ i \in 1..Len(ctxCalls)
    /\ ctxCalls' = [k \in 1..(Len(ctxCalls) - 1) |->
                        IF k < i THEN ctxCalls[k] ELSE ctxCalls[k + 1]]
    /\ IF mounted
       THEN /\ context' = <<ContextOf(ctxCalls[i], outcome)>>
            /\ contextLoading' = FALSE
       ELSE UNCHANGED <<context, contextLoading>>
    /\ IF outcome.kind = "data" /\ fc # <<>> /\ mapState \in {"loading", "ready"}
       THEN /\ fc' = <<WithWind(fc[1], ctxCalls[i].sel.id, outcome.speed_ms)>>
            /\ shown' = IF mapState = "ready" THEN fc' ELSE shown
       ELSE UNCHANGED <<fc, shown>>
    /\ UNCHANGED <<inFlight, pollPc, prevById, nextId, error, balloonsLoading,
                   freshness, mintBase, sameRun, running, skipped, polled, mounted,
                   mapState, exit, selected, serverVars, normVars, contextVars>>

\* ============================================================ specifications
Init == ClientInit /\ ServerInit /\ NormIdle /\ ContextInit /\ PanelInit

\* the component, polling an API that answers anything the route can answer
Next ==
    \/ PollStart
    \/ PollSkipped
    \/ FetchRejects
    \/ FetchNotOk
    \/ FetchOk
    \/ JsonRejects
    \/ JsonResolves

Spec == Init /\ [][Next]_vars

\* the component from mount to unmount, with or without a Mapbox token, its
\* network calls settling sooner or later
InitLifecycle ==
    /\ \E tokenPresent \in BOOLEAN :
          /\ mapState = (IF tokenPresent THEN "loading" ELSE "notoken")
          /\ error = (IF tokenPresent THEN Null ELSE MissingToken)
    /\ inFlight = FALSE
    /\ pollPc = "idle"
    /\ prevById = <<>>
    /\ nextId = 1
    /\ fc = <<>>
    /\ balloonsLoading = FALSE
    /\ freshness = <<>>
    /\ mintBase = 1
    /\ sameRun = FALSE
    /\ running = 0
    /\ skipped = FALSE
    /\ polled = <<>>
    /\ mounted = TRUE
    /\ shown = <<>>
    /\ exit = "none"
    /\ ServerInit
    /\ NormIdle
    /\ ContextInit
    /\ PanelInit

FetchSettles == FetchRejects \/ FetchNotOk \/ FetchOk

JsonSettles == JsonRejects \/ JsonResolvesFrom(TRUE)

LifecycleNext ==
    \/ PollStart
    \/ PollSkipped
    \/ FetchRejects
    \/ FetchNotOk
    \/ FetchOk
    \/ JsonRejects
    \/ JsonResolvesFrom(TRUE)
    \/ MapLoads
    \/ Unmount

SpecLifecycle ==
    /\ InitLifecycle
    /\ [][LifecycleNext]_vars
    /\ WF_vars(FetchSettles)
    /\ WF_vars(JsonSettles)

\* the route, serving concurrent requests
FetcherNext ==
    \/ Tick
    \/ \E q \in Requests : GetStart(q)
    \/ \E q \in Requests : AttemptSucceeds(q)
    \/ \E q \in Requests : AttemptFails(q)

SpecFetcher == Init /\ [][FetcherNext]_vars

\* the route, serving one request at a time with any hoursAgo parameter
ClampNext ==
    \/ GetStartFrom("q1", TRUE)
    \/ AttemptSucceeds("q1")
    \/ AttemptFails("q1")

SpecClamp == Init /\ [][ClampNext]_vars

\* the component with its panel: polls, clicks on points and the answers
\* of the context route in any order
PanelNext ==
    \/ PollStart
    \/ FetchRejects
    \/ FetchOk
    \/ JsonResolvesFrom(TRUE)
    \/ MapLoads
    \/ Unmount
    \/ Select
    \/ ClosePanel
    \/ \E i \in 1..MaxCalls : \E outcome \in ContextOutcomes : ContextSettles(i, outcome)

SpecPanel == InitLifecycle /\ [][PanelNext]_vars

\* the context route, serving concurrent requests
ContextNext ==
    \/ CtxTick
    \/ \E q \in CtxRequests : CtxStart(q)
    \/ \E q \in CtxRequests : CtxFetchThrows(q)
    \/ \E q \in CtxRequests : CtxFetched(q)
    \/ \E q \in CtxRequests : CtxGridThrows(q)
    \/ \E q \in CtxRequests : CtxGridLoaded(q)

SpecContext == Init /\ [][ContextNext]_vars

\* the normalizer, given any body of NormalizerInputs
InitNormalizer ==
    /\ ClientInit
    /\ ServerInit
    /\ raw \in NormalizerInputs
    /\ extracted = <<>>
    /\ normalized = <<>>
    /\ delivered = <<>>
    /\ ContextInit
    /\ PanelInit

NormalizerNext ==
    \/ Extract
    \/ Normalize
    \/ Deliver

SpecNormalizer == InitNormalizer /\ [][NormalizerNext]_vars

\* ==================================================================== claims
\* a poll finishes in this step with its result applied / with an error
PollApplied == pollPc = "json" /\ pollPc' = "idle" /\ error' = Null
PollFailed == pollPc # "idle" /\ pollPc' = "idle" /\ error' # Null

TableIds == {prevById[k].id : k \in 1..Len(prevById)}

WithinMatch(aLat, aLon, bLat, bLon) == haversineM(aLat, aLon, bLat, bLon) <= MATCH_KM * 1000

\* C1: in the output of every poll the identifiers are pairwise distinct.
C1_IdsDistinct ==
    fc # <<>> => \A i, j \in 1..Len(fc[1]) : i # j => fc[1][i].id # fc[1][j].id

\* two points at one position, one took the previous identifier, one a new one
C1_Witness ==
    /\ fc # <<>> /\ Len(fc[1]) = 2
    /\ <<fc[1][1].lat, fc[1][1].lon>> = <<fc[1][2].lat, fc[1][2].lon>>
    /\ fc[1][1].id < mintBase
    /\ fc[1][2].id >= mintBase

\* C2: a current point that has an unclaimed previous entry within MATCH_KM
\* when it is processed gets an existing identifier.
C2_CloseUnclaimedIsReused ==
    [][PollApplied =>
        \A i \in 1..Len(fc'[1]) :
            (\E k \in 1..Len(prevById) :
                /\ prevById[k].id \notin {fc'[1][j].id : j \in 1..(i - 1)}
                /\ WithinMatch(fc'[1][i].lat, fc'[1][i].lon, prevById[k].lat, prevById[k].lon))
            => fc'[1][i].id \in TableIds]_vars

\* C3: an existing identifier is given only to a point within MATCH_KM of that
\* identifier's previous position; a point with no previous position within
\* MATCH_KM gets an identifier that is not in the previous table.
C3_ReuseOnlyWithinThreshold ==
    [][PollApplied =>
        \A i \in 1..Len(fc'[1]) :
            /\ fc'[1][i].id \in TableIds =>
                \E k \in 1..Len(prevById) :
                    /\ prevById[k].id = fc'[1][i].id
                    /\ WithinMatch(fc'[1][i].lat, fc'[1][i].lon, prevById[k].lat, prevById[k].lon)
            /\ (\A k \in 1..Len(prevById) :
                    ~WithinMatch(fc'[1][i].lat, fc'[1][i].lon, prevById[k].lat, prevById[k].lon))
                => fc'[1][i].id \notin TableIds /\ fc'[1][i].id >= nextId]_vars

\* one point kept an identifier, another, farther than MATCH_KM from it, was minted
C3_Witness ==
    /\ fc # <<>>
    /\ \E i, j \in 1..Len(fc[1]) :
        /\ fc[1][i].id < mintBase
        /\ fc[1][j].id >= mintBase
        /\ ~WithinMatch(fc[1][i].lat, fc[1][i].lon, fc[1][j].lat, fc[1][j].lon)

\* C4: when a poll delivers the point list of the previous applied poll, every
\* list position keeps its identifier and nothing is minted.
C4_SameListSameIds ==
    [][(PollApplied /\ sameRun') =>
        /\ Ids(fc'[1]) = Ids(fc[1])
        /\ nextId' = nextId]_vars

\* the same two-point list twice, its points within MATCH_KM of each other
C4_Witness ==
    /\ sameRun
    /\ fc # <<>> /\ Len(fc[1]) = 2
    /\ fc[1][1].id # fc[1][2].id
    /\ WithinMatch(fc[1][1].lat, fc[1][1].lon, fc[1][2].lat, fc[1][2].lon)

\* C5: a failed poll leaves table and counter as they were; they change only
\* in a poll whose fetch and normalization succeeded.
C5_FailedPollKeepsTable ==
    [][/\ PollFailed => prevById' = prevById /\ nextId' = nextId
       /\ (prevById' # prevById \/ nextId' # nextId) => PollApplied]_vars

\* an unrecognized shape arrived while the table was not empty
C5_Witness ==
    /\ ~inFlight
    /\ Len(error) >= Len(ShapeError)
    /\ SubSeq(error, 1, Len(ShapeError)) = ShapeError
    /\ prevById # <<>>

\* C6: the table holds exactly the identifiers of the last output, each at
\* the position of its point.
C6_TableIsLastOutput ==
    /\ fc = <<>> => prevById = <<>>
    /\ fc # <<>> =>
        /\ {prevById[k] : k \in 1..Len(prevById)}
             = {[id |-> fc[1][i].id, lat |-> fc[1][i].lat, lon |-> fc[1][i].lon] : i \in 1..Len(fc[1])}
        /\ \A k, l \in 1..Len(prevById) : k # l => prevById[k].id # prevById[l].id

\* an empty list emptied a table that had entries
C6_Witness ==
    /\ nextId > 1
    /\ fc = << <<>> >>
    /\ prevById = <<>>

\* C7: the counter never decreases, the identifiers a poll mints are the next
\* numbers of the counter in order, and every identifier in use is below it.
C7_MintsAreFresh ==
    [][/\ nextId' >= nextId
       /\ \A id \in TableIds : id < nextId
       /\ PollApplied =>
            LET minted == SelectSeq(Ids(fc'[1]), LAMBDA id : id \notin TableIds)
            IN  /\ minted = [k \in 1..Len(minted) |-> nextId + k - 1]
                /\ nextId' = nextId + Len(minted)]_vars

\* a poll minted after an earlier identifier had been dropped
C7_Witness ==
    /\ nextId > mintBase
    /\ \E k \in 1..(mintBase - 1) : k \notin TableIds

\* request q is answered in this step
Answered(q) == req[q].pc = "await" /\ req'[q].pc = "done"

\* C8: an error is answered only if no upstream fetch has ever succeeded;
\* after a success, a request whose buckets all fail answers 200 from the
\* cache with the payload of the latest success, whatever that payload is.
C8_ErrorOnlyWithoutData ==
    [][\A q \in Requests :
        (Answered(q) /\ req'[q].resp.source # "upstream") =>
            IF lastGood = <<>>
            THEN req'[q].resp.status = 502
            ELSE /\ req'[q].resp.status = 200
                 /\ req'[q].resp.source = "cache"
                 /\ req'[q].resp.data = lastGood[1]]_vars

\* the buckets r..h in ascending order
Chain(r, h) == [i \in 1..(h - r + 1) |-> r + i - 1]

\* C9: the buckets tried are r, r+1, ... in this order, each once, the next
\* one only after the one before has failed; the request stops at the first
\* success and tags the answer with that bucket.
C9_BucketsInOrder ==
    \A q \in Requests :
        req[q].pc # "idle" =>
            /\ req[q].r <= req[q].h /\ req[q].h <= OLDEST
            /\ req[q].tried = Chain(req[q].r, req[q].h)
            /\ req[q].pc = "await" => req[q].failed = Chain(req[q].r, req[q].h - 1)
            /\ (req[q].pc = "done" /\ req[q].resp.source = "upstream") =>
                /\ req[q].failed = Chain(req[q].r, req[q].h - 1)
                /\ req[q].resp.hoursAgo = req[q].h
            /\ (req[q].pc = "done" /\ req[q].resp.source # "upstream") =>
                /\ req[q].h = OLDEST
                /\ req[q].failed = Chain(req[q].r, OLDEST)

\* a request that asked for bucket 21 was answered with bucket 23
C9_Witness ==
    \E q \in Requests :
        /\ req[q].pc = "done"
        /\ req[q].resp.source = "upstream"
        /\ req[q].r = OLDEST - 2
        /\ req[q].resp.hoursAgo = OLDEST
        /\ req[q].failed = <<OLDEST - 2, OLDEST - 1>>

\* C10: a successful bucket fetch writes (now, bucket obtained, payload) into
\* the slot in the step that answers, whatever the slot held.
C10_SuccessOverwritesSlot ==
    [][\A q \in Requests :
        (Answered(q) /\ req'[q].resp.source = "upstream") =>
            /\ req'[q].resp.hoursAgo = req[q].h
            /\ balloonCache' = << [timestampMs |-> now, hoursAgo |-> req[q].h,
                                   data |-> req'[q].resp.data] >>]_vars

\* the slot holds a later success than the one that answered request q
C10_Witness ==
    \E q \in Requests :
        /\ req[q].pc = "done"
        /\ req[q].resp.source = "upstream"
        /\ balloonCache # <<>>
        /\ balloonCache[1].timestampMs > 0
        /\ balloonCache[1].data # req[q].resp.data
        /\ balloonCache[1].hoursAgo # req[q].resp.hoursAgo

\* C11: a request answered from the cache or with 502 leaves the slot as it
\* was; the slot changes only in the step of a request whose bucket fetch
\* succeeded.
C11_FallbackKeepsSlot ==
    [][/\ \A q \in Requests :
            (Answered(q) /\ req'[q].resp.source # "upstream") => balloonCache' = balloonCache
       /\ balloonCache' # balloonCache =>
            \E q \in Requests : Answered(q) /\ req'[q].resp.source = "upstream"]_vars

\* one request was answered 502, another from a slot written a second ago,
\* and the slot still carries the time of its write
C11_Witness ==
    \E q1, q2 \in Requests :
        /\ req[q1].pc = "done" /\ req[q1].resp.status = 502
        /\ req[q2].pc = "done" /\ req[q2].resp.source = "cache"
        /\ req[q2].resp.cacheAgeSeconds = <<1>>
        /\ balloonCache # <<>>
        /\ balloonCache[1].timestampMs < now

\* C12: once a fetch has succeeded, a request whose buckets all fail answers
\* from the cache, and of two such requests with no success between them the
\* second answers the same data and hoursAgo and a cacheAgeSeconds that is
\* not smaller.
C12_CacheAnswersRepeat ==
    [][\A q \in Requests :
        (Answered(q) /\ req'[q].resp.source # "upstream" /\ lastGood # <<>>) =>
            /\ req'[q].resp.source = "cache"
            /\ lastFallback # <<>> =>
                /\ lastFallback[1].source = "cache"
                /\ req'[q].resp.data = lastFallback[1].data
                /\ req'[q].resp.hoursAgo = lastFallback[1].hoursAgo
                /\ req'[q].resp.cacheAgeSeconds[1] >= lastFallback[1].cacheAgeSeconds[1]]_vars

\* C13: a request whose buckets all failed while the slot was empty answers
\* 502 with the error of its last attempt, the one for bucket OLDEST.
C13_DetailsAreLastError ==
    [][\A q \in Requests :
        (Answered(q) /\ req'[q].resp.source # "upstream" /\ balloonCache = <<>>) =>
            /\ req'[q].resp.status = 502
            /\ \E kind \in FailureKinds :
                    req'[q].resp.details = <<[bucket |-> OLDEST, kind |-> kind]>>
            /\ req'[q].resp.details = req'[q].lastError]_vars

\* a request that started at bucket 21 failed three times and answered 502
C13_Witness ==
    \E q \in Requests :
        /\ req[q].pc = "done"
        /\ req[q].resp.status = 502
        /\ req[q].failed = <<OLDEST - 2, OLDEST - 1, OLDEST>>
        /\ req[q].resp.details # <<>>
        /\ req[q].resp.details[1].bucket = OLDEST
        /\ balloonCache = <<>>

\* the state of the component that a trigger could touch
ComponentState == <<inFlight, pollPc, prevById, nextId, fc, error, balloonsLoading, freshness>>

\* C14: at most one poll is in progress; a trigger that arrives while a poll
\* is in flight starts no fetch and changes nothing, and when the poll in
\* flight finishes no poll is in progress until the next trigger.
C14_OnePollAtATime ==
    [][/\ running' <= 1
       /\ running' = (IF pollPc' = "idle" THEN 0 ELSE 1)
       /\ (~skipped /\ skipped') => (inFlight /\ ComponentState' = ComponentState /\ running' = running)
       /\ (pollPc # "idle" /\ ~inFlight') => (pollPc' = "idle" /\ running' = 0)]_vars

\* a trigger was ignored while the poll in flight awaited the body
C14_Witness ==
    /\ inFlight
    /\ pollPc = "json"
    /\ running = 1
    /\ skipped
    /\ prevById # <<>>

\* C15: the table and the cache slot have one writer at a time: at most one
\* poll is between its start and its write of the table, and at most one
\* request is inside the attempt loop that writes the slot.
C15_OneWriterAtATime ==
    /\ running <= 1
    /\ Cardinality({q \in Requests : req[q].pc = "await"}) <= 1

\* a list that starts with two finite numbers
IsPointLike(x) == x.t = "arr" /\ Len(x.a) >= 2 /\ x.a[1].t = "num" /\ x.a[2].t = "num"

\* a non-empty list whose first element is a list
IsTrackLike(x) == x.t = "arr" /\ Len(x.a) > 0 /\ x.a[1].t = "arr"

\* the last element of a track, null for what is no non-empty list
TrackLast(track) ==
    IF track.t = "arr" /\ Len(track.a) > 0 THEN track.a[Len(track.a)] ELSE JNull

InRange(p) == Abs(p.lat) <= 90 * Scale /\ Abs(p.lon) <= 180 * Scale

\* C16: for a list of point candidates that holds a well-formed candidate,
\* malformed candidates at any place, the first included, are dropped: the
\* call does not fail and returns every well-formed candidate.
C16_MalformedNeverFails ==
    (/\ extracted # <<>>
     /\ raw.t = "arr"
     /\ \A i \in 1..Len(raw.a) : ~IsTrackLike(raw.a[i])
     /\ \E i \in 1..Len(raw.a) : normalizePoint(raw.a[i]) # <<>>) =>
        /\ extracted[1].ok
        /\ extracted[1].points = NormalizeAll(raw.a)

\* C17: every point extractLatestPositions or normalizePoint returns, and
\* every position of the table, has its latitude in [-90, 90] and its
\* longitude in [-180, 180].
C17_PointsInRange ==
    /\ extracted # <<>> =>
        \A k \in 1..Len(extracted[1].points) : InRange(extracted[1].points[k])
    /\ normalized # <<>> =>
        \A k \in 1..Len(normalized[1]) : InRange(normalized[1][k])
    /\ \A k \in 1..Len(prevById) : InRange(prevById[k])

\* a list with an out-of-range pair gave a point
C17_Witness ==
    /\ extracted # <<>>
    /\ raw.t = "arr"
    /\ \E i \in 1..Len(raw.a) :
            IsPointLike(raw.a[i]) /\ Abs(raw.a[i].a[1].n) > 90 * Scale /\ Abs(raw.a[i].a[2].n) > 90 * Scale
    /\ Len(extracted[1].points) >= 1

\* C18: an empty list gives an empty list; a list whose first element starts
\* with two finite numbers is a flat list, every element a candidate; a list
\* whose first element is a non-empty list whose first element starts with
\* two finite numbers is a track list, the last element of every track the
\* candidate.
C18_ShapeRouting ==
    extracted # <<>> =>
        LET data == unwrapPayload(raw)
        IN  data.t = "arr" =>
              /\ Len(data.a) = 0 =>
                    extracted[1] = [ok |-> TRUE, points |-> <<>>, msg |-> Null]
              /\ (Len(data.a) > 0 /\ IsPointLike(data.a[1])) =>
                    /\ extracted[1].ok
                    /\ extracted[1].points = NormalizeAll(data.a)
              /\ (Len(data.a) > 0 /\ IsTrackLike(data.a[1]) /\ IsPointLike(data.a[1].a[1])) =>
                    /\ extracted[1].ok
                    /\ extracted[1].points
                         = NormalizeAll([i \in 1..Len(data.a) |-> TrackLast(data.a[i])])

\* of two tracks, the one that ends in a malformed element gave no point and
\* the other gave its last point, not its first
C18_Witness ==
    /\ extracted # <<>>
    /\ raw = JArr(<<JArr(<<Good1, JStr("x")>>), JArr(<<Good1, Good2>>)>>)
    /\ extracted[1].points = <<[lat |-> 0, lon |-> 1800, meta |-> <<7>>]>>

\* C19: a candidate [a, b, attr] with finite a and b is read as (lat, lon) =
\* (b, a) when |a| > 90 and |b| <= 90 and as (a, b) otherwise, dropped when
\* |lat| > 90 or |lon| > 180, and keeps attr exactly when it is a finite number.
C19_PointInterpretation ==
    (normalized # <<>> /\ IsPointLike(raw)) =>
        LET a == raw.a[1].n
            b == raw.a[2].n
            swapped == Abs(a) > 90 * Scale /\ Abs(b) <= 90 * Scale
            lat == IF swapped THEN b ELSE a
            lon == IF swapped THEN a ELSE b
            attr == IF Len(raw.a) >= 3 /\ raw.a[3].t = "num" THEN <<raw.a[3].n>> ELSE <<>>
        IN  normalized[1] = IF Abs(lat) > 90 * Scale \/ Abs(lon) > 180 * Scale THEN <<>>
                            ELSE <<[lat |-> lat, lon |-> lon, meta |-> attr]>>

\* a candidate in lon/lat order at the edge of the latitude range was swapped
C19_Witness ==
    /\ normalized # <<>>
    /\ raw = JArr(<<JNum(1800), JNum(-900)>>)
    /\ normalized[1] = <<[lat |-> -900, lon |-> 1800, meta |-> <<>>]>>

\* C20: for a recognized shape the output is no longer than the top-level
\* list and its points are, in order, points of elements (of last elements of
\* tracks) at increasing places of that list.
C20_DropsOnlyKeepsOrder ==
    (extracted # <<>> /\ extracted[1].ok) =>
        LET data == unwrapPayload(raw)
            points == extracted[1].points
            From(i) == {normalizePoint(data.a[i]), normalizePoint(TrackLast(data.a[i]))}
        IN  /\ Len(points) <= Len(data.a)
            /\ \E f \in [1..Len(points) -> 1..Len(data.a)] :
                    /\ \A k \in 1..(Len(points) - 1) : f[k] < f[k + 1]
                    /\ \A k \in 1..Len(points) : <<points[k]>> \in From(f[k])

\* a list of three gave two different points, the dropped one between them
C20_Witness ==
    /\ extracted # <<>>
    /\ extracted[1].ok
    /\ Len(unwrapPayload(raw).a) = 3
    /\ Len(extracted[1].points) = 2
    /\ extracted[1].points[1] # extracted[1].points[2]
    /\ normalizePoint(unwrapPayload(raw).a[2]) = <<>>
    /\ normalizePoint(TrackLast(unwrapPayload(raw).a[2])) = <<>>

Recognized(data) ==
    /\ data.t = "arr"
    /\ \/ Len(data.a) = 0
       \/ IsPointLike(data.a[1])
       \/ IsTrackLike(data.a[1]) /\ IsPointLike(data.a[1].a[1])

\* C22: for a payload that, unwrapped, is no empty list, no flat point list
\* and no track list, extractLatestPositions throws instead of returning
\* points; the message is the fixed text followed by a preview of at most 200
\* characters, the start of the payload's JSON text (all of it when it is no
\* longer than that).
C22_UnrecognizedFails ==
    (extracted # <<>> /\ ~Recognized(unwrapPayload(raw))) =>
        LET msg == extracted[1].msg
            text == Stringify(unwrapPayload(raw))
            cut == Len(msg) - Len(ShapeError)
        IN  /\ ~extracted[1].ok
            /\ extracted[1].points = <<>>
            /\ cut >= 0
            /\ cut <= 200
            /\ SubSeq(msg, 1, Len(ShapeError)) = ShapeError
            /\ SubSeq(msg, Len(ShapeError) + 1, Len(msg)) = SubSeq(text, 1, cut)
            /\ Len(text) <= 200 => cut = Len(text)

\* a payload whose JSON text is longer than 200 characters was cut to 200
C22_Witness ==
    /\ extracted # <<>>
    /\ ~extracted[1].ok
    /\ Len(Stringify(unwrapPayload(raw))) > 200
    /\ Len(extracted[1].msg) = Len(ShapeError) + 200

AdjacentBins(a, b) == Abs(a[1] - b[1]) <= 1 /\ Abs(a[2] - b[2]) <= 1

\* the entries of the previous table that are candidates of the i-th point of
\* the output out when it is processed: in the nine cells around the point
\* and not claimed by an earlier point
OpenFor(out, i) ==
    {k \in 1..Len(prevById) :
        /\ AdjacentBins(binKey(out[i].lat, out[i].lon), binKey(prevById[k].lat, prevById[k].lon))
        /\ prevById[k].id \notin {out[j].id : j \in 1..(i - 1)}}

DistTo(out, i, k) == haversineM(out[i].lat, out[i].lon, prevById[k].lat, prevById[k].lon)

\* the nearest of those candidates
NearestFor(out, i) ==
    CHOOSE nearest \in {{k \in open : \A l \in open : DistTo(out, i, k) <= DistTo(out, i, l)} :
                           open \in {OpenFor(out, i)}} : TRUE

\* C25: a point whose nearest unclaimed candidate is at exactly MATCH_KM takes
\* the identifier of such a candidate; a point whose nearest unclaimed
\* candidate is farther than MATCH_KM takes a minted identifier.
C25_ThresholdInclusive ==
    [][PollApplied =>
        \A i \in 1..Len(fc'[1]) :
            \A nearest \in {NearestFor(fc'[1], i)} :
                /\ (\E k \in nearest : DistTo(fc'[1], i, k) = MATCH_KM * 1000) =>
                        fc'[1][i].id \in {prevById[k].id : k \in nearest}
                /\ (\E k \in nearest : DistTo(fc'[1], i, k) > MATCH_KM * 1000) =>
                        /\ fc'[1][i].id \notin TableIds
                        /\ fc'[1][i].id >= nextId]_vars

\* the only identifier ever minted, last seen at another position, is now at
\* Pos[2]: it was at Pos[1], exactly MATCH_KM away
C25_Witness ==
    /\ fc # <<>> /\ ~sameRun
    /\ mintBase = 2 /\ nextId = 2
    /\ Len(fc[1]) = 1
    /\ fc[1][1].id = 1
    /\ <<fc[1][1].lat, fc[1][1].lon>> = Pos[2]
    /\ haversineM(Pos[1][1], Pos[1][2], Pos[2][1], Pos[2][2]) = MATCH_KM * 1000

\* C26: whatever the hoursAgo parameter is, the request is served: its first
\* attempt is the bucket r, an integer of 0..23; r is 0 when the value is no
\* finite number, and otherwise the floor of the value, raised to 0 and
\* lowered to 23.
C26_ClampNeverRejects ==
    \A q \in Requests :
        req[q].pc # "idle" =>
            LET v == QueryNumber(req[q].query)
                r == req[q].r
            IN  /\ r \in 0..23
                /\ req[q].tried # <<>> /\ req[q].tried[1] = r
                /\ req[q].resp.status \in {0, 200, 502}
                /\ v.k # "fin" => r = 0
                /\ (v.k = "fin" /\ v.v < 0) => r = 0
                /\ (v.k = "fin" /\ v.v >= 23 * Scale) => r = 23
                /\ (v.k = "fin" /\ 0 <= v.v /\ v.v < 23 * Scale) =>
                        r * Scale <= v.v /\ v.v < (r + 1) * Scale

\* hoursAgo=22.5 is being served from bucket 22 on
C26_Witness ==
    /\ req["q1"].pc = "await"
    /\ req["q1"].query = <<"22.5">>
    /\ req["q1"].tried = <<22>>

\* C28: a 200 response has source upstream or cache and carries
\* cacheAgeSeconds exactly when the source is cache; an upstream response
\* comes from a request whose last attempted bucket succeeded and names that
\* bucket; a cache response comes from a request all of whose attempts, down
\* to the oldest bucket, failed.
C28_SourceTellsOrigin ==
    \A q \in Requests :
        req[q].resp.status = 200 =>
            LET resp == req[q].resp
                tried == req[q].tried
                failed == req[q].failed
            IN  /\ resp.source \in {"upstream", "cache"}
                /\ (resp.cacheAgeSeconds # <<>>) <=> (resp.source = "cache")
                /\ resp.source = "upstream" =>
                        /\ Len(failed) = Len(tried) - 1
                        /\ tried[Len(tried)] \notin Range(failed)
                        /\ resp.hoursAgo = tried[Len(tried)]
                /\ resp.source = "cache" =>
                        /\ failed = tried
                        /\ Range(failed) = req[q].r..OLDEST

\* one request was answered from upstream after a failed bucket, the other
\* from the cache with an age of a second
C28_Witness ==
    \E q, p \in Requests :
        /\ req[q].resp.status = 200 /\ req[q].resp.source = "upstream"
        /\ req[q].failed # <<>>
        /\ req[p].resp.status = 200 /\ req[p].resp.source = "cache"
        /\ req[p].resp.cacheAgeSeconds = <<1>>

\* C29: the points are served in list order; each takes, of the previous
\* entries in its nine cells that no earlier point of the list has taken, one
\* at minimum distance if that distance is within MATCH_KM, and a minted
\* identifier otherwise; what an earlier point took stays with it.
C29_GreedyInListOrder ==
    [][PollApplied =>
        \A i \in 1..Len(fc'[1]) :
            \A nearest \in {NearestFor(fc'[1], i)} :
                \A within \in {\E k \in nearest : DistTo(fc'[1], i, k) <= MATCH_KM * 1000} :
                    /\ within => fc'[1][i].id \in {prevById[k].id : k \in nearest}
                    /\ ~within => fc'[1][i].id \notin TableIds /\ fc'[1][i].id >= nextId
                    /\ \A j \in 1..(i - 1) : fc'[1][j].id # fc'[1][i].id]_vars

\* two points at Pos[1]: the first took identifier 2, which is the nearer one
\* to both, and the second was left with identifier 1
C29_Witness ==
    /\ fc # <<>> /\ ~sameRun
    /\ Len(fc[1]) = 2
    /\ mintBase = 3 /\ nextId = 3
    /\ <<fc[1][1].lat, fc[1][1].lon>> = Pos[1]
    /\ <<fc[1][2].lat, fc[1][2].lon>> = Pos[1]
    /\ fc[1][1].id = 2
    /\ fc[1][2].id = 1

C30_PollsEndAndRelease ==
    /\ inFlight ~> ~inFlight
    /\ [][(pollPc # "idle" /\ pollPc' = "idle") =>
            /\ ~inFlight'
            /\ mounted => ~balloonsLoading'
            /\ exit' \in {"threw", "nomap", "nosource", "shown"}]_vars
    /\ [](inFlight <=> pollPc # "idle")
    /\ []((mounted /\ ~inFlight) => ENABLED PollStart)

\* after a poll that returned early for want of the source, the next poll is
\* in flight
C30_Witness ==
    /\ inFlight /\ exit = "running"
    /\ fc # <<>>
    /\ mapState = "loading" /\ shown = <<>>

\* C31: when a poll of the mounted component finishes, the error state is
\* non-null exactly when the poll threw; a poll that threw shows the message of
\* what was thrown at the stage it had reached and leaves the freshness data,
\* fcRef and the data of the map source as the last successful poll left them;
\* a poll that did not throw leaves the error state null
PollFinished == pollPc # "idle" /\ pollPc' = "idle"

ThrownAt(stage) ==
    IF stage = "fetch" THEN {FetchFailed, ApiFailed(502)}
    ELSE {BadJson} \cup {a.msg : a \in {b \in FewAnswers : ~b.ok}}

C31_ErrorIffPollFailed ==
    [][(PollFinished /\ mounted) =>
          /\ (error' # Null) <=> (exit' = "threw")
          /\ exit' = "threw" =>
                /\ error' \in ThrownAt(pollPc)
                /\ freshness' = freshness
                /\ fc' = fc
                /\ shown' = shown
          /\ exit' # "threw" => error' = Null /\ freshness' # <<>>]_vars

\* a poll failed after an earlier poll had put its features on the map
C31_Witness ==
    /\ mounted
    /\ pollPc = "idle"
    /\ exit = "threw"
    /\ error # Null
    /\ freshness # <<>>
    /\ shown # <<>>
    /\ shown[1] # <<>>

\* C32: between polls every identifier of the IdentityTable is a number k with
\* 1 <= k < nextIdRef; the counter never decreases; every poll, failed or not,
\* raises it by the number of identifiers its table has that the table before
\* it had not; and after a poll that did not throw the table has one entry
\* for each point the poll delivered
C32_CounterBoundsTable ==
    /\ [](pollPc = "idle" => \A id \in TableIds : 1 <= id /\ id < nextId)
    /\ [][/\ nextId' >= nextId
          /\ PollFinished =>
                \A before \in {TableIds} : \A after \in {TableIds'} :
                    /\ nextId' - nextId = Cardinality(after \ before)
                    /\ exit' # "threw" => /\ Len(prevById') = Len(polled')
                                          /\ Cardinality(after) = Len(polled')]_vars

\* a poll of two points reused one identifier and minted the other
C32_Witness ==
    /\ pollPc = "idle"
    /\ exit # "threw"
    /\ Len(polled) = 2
    /\ Len(prevById) = 2
    /\ mintBase > 1
    /\ nextId = mintBase + 1
    /\ \E k, l \in 1..2 : prevById[k].id < mintBase /\ prevById[l].id = mintBase

\* request q completes a successful bucket fetch in this step
Fetched(q) == Answered(q) /\ req'[q].resp.source = "upstream"

\* C33: with requests interleaved in any way, the slot is empty until the
\* first successful bucket fetch and afterwards holds the payload of the
\* latest one; a step that completes a successful bucket fetch sets the slot
\* to (time of the step, bucket obtained, payload) whatever the payload is,
\* and no other step changes the slot
C33_SlotIsLatestSuccess ==
    /\ [](IF lastGood = <<>> THEN balloonCache = <<>>
          ELSE /\ balloonCache # <<>>
               /\ balloonCache[1].data = lastGood[1]
               /\ balloonCache[1].timestampMs <= now)
    /\ [][IF \E q \in Requests : Fetched(q)
          THEN \A q \in Requests :
                  Fetched(q) =>
                      balloonCache' = << [timestampMs |-> now, hoursAgo |-> req[q].h,
                                          data |-> req'[q].resp.data] >>
          ELSE balloonCache' = balloonCache]_vars

\* the slot holds bucket 22 with a payload extractLatestPositions rejects,
\* written by a request that had first failed on bucket 21, after another
\* request had obtained bucket 21
C33_Witness ==
    \E slow, fast \in Requests :
        /\ req[slow].pc = "done" /\ req[fast].pc = "done"
        /\ req[fast].resp.source = "upstream"
        /\ req[fast].resp.hoursAgo = MinRequested
        /\ req[slow].resp.source = "upstream"
        /\ req[slow].failed = <<MinRequested>>
        /\ balloonCache # <<>>
        /\ balloonCache[1].hoursAgo = MinRequested + 1
        /\ balloonCache[1].data = req[slow].resp.data
        /\ balloonCache[1].data # req[fast].resp.data
        /\ ~extractLatestPositions(
               Envelope(balloonCache[1].hoursAgo, "upstream", 0, balloonCache[1].data)).ok

\* request q of the context route is answered in this step
CtxAnswered(q) == ctxReq[q].pc # "done" /\ ctxReq'[q].pc = "done"

\* the entries of the context cache: none while the Map does not exist
CtxEntries == IF contextCache = <<>> THEN EmptyMap ELSE contextCache[1]

\* a coordinate rounded to two decimals, in hundredths of a degree
Hundredths(m) ==
    IF m < 0 THEN -((-m * 100 + Milli \div 2) \div Milli)
    ELSE (m * 100 + Milli \div 2) \div Milli

\* C34: a request answered with cache.hit = true is answered with a value
\* that is in the cache, was stored less than ten minutes before, and was
\* computed for coordinates that round to the same two decimals as its own;
\* a request answered with cache.hit = false is answered with the value it
\* computed for its own coordinates, and that value is in the cache under
\* its key when it answers; a request answered 400 or 502 leaves the
\* entries of the cache as they were, and so does every step that is not a
\* request answering the value it computed
C34_ContextCacheServesFresh ==
    [][/\ \A q \in CtxRequests :
            CtxAnswered(q) =>
                \A r \in {ctxReq'[q].resp} :
                    /\ (r.status = 200 /\ r.value[1].hit) =>
                            \E k \in CtxKeys :
                                /\ CtxEntries[k] # <<>>
                                /\ ctxNow - CtxEntries[k][1].at < CtxTtlMs
                                /\ r.value[1] = [CtxEntries[k][1].value EXCEPT !.hit = TRUE]
                                /\ Hundredths(r.value[1].requested.lat)
                                        = Hundredths(ctxReq'[q].lat)
                                /\ Hundredths(r.value[1].requested.lon)
                                        = Hundredths(ctxReq'[q].lon)
                    /\ (r.status = 200 /\ ~r.value[1].hit) =>
                            /\ r.value[1].requested = [lat |-> ctxReq[q].lat, lon |-> ctxReq[q].lon]
                            /\ contextCache'[1][CacheKey(ctxReq[q].lat, ctxReq[q].lon)]
                                    = <<[ts |-> ctxReq[q].now, value |-> r.value[1],
                                         at |-> ctxNow]>>
                    /\ r.status \in {400, 502} => CtxEntries' = CtxEntries
                    /\ r.status \in {200, 400, 500, 502}
       /\ CtxEntries' # CtxEntries =>
            \E q \in CtxRequests :
                CtxAnswered(q) /\ ctxReq'[q].resp.status = 200 /\ ~ctxReq'[q].resp.value[1].hit]_vars

\* a request was served the value another request had computed for other
\* coordinates of the same key, stored after that request had started, while
\* an entry of another key was in the cache
C34_Witness ==
    \E q \in CtxRequests : \E k, other \in CtxKeys :
        /\ ctxReq[q].pc = "done"
        /\ ctxReq[q].resp.status = 200
        /\ ctxReq[q].resp.value[1].hit
        /\ ctxReq[q].resp.value[1].requested.lat # ctxReq[q].lat
        /\ contextCache # <<>>
        /\ contextCache[1][k] # <<>>
        /\ contextCache[1][k][1].value.requested = ctxReq[q].resp.value[1].requested
        /\ contextCache[1][k][1].at > contextCache[1][k][1].ts
        /\ other # k
        /\ contextCache[1][other] # <<>>

\* C35: while the component is mounted and a balloon is selected, the panel
\* has the answer (data or error) of the request issued for that selection
\* whenever no context request is in flight, and contextLoading is true as
\* long as the request issued for that selection is unanswered
C35_PanelShowsCurrentSelection ==
    (mounted /\ selected # <<>>) =>
        /\ ctxCalls = <<>> =>
                /\ context # <<>>
                /\ context[1].current
                /\ context[1].of = selected[1]
        /\ (\E i \in 1..Len(ctxCalls) : ctxCalls[i].current) => contextLoading

====
